---- MODULE Spec2Model ----
(***************************************************************************)
(* A model of the rugged extension (ext/rugged): the batch diff-statistics *)
(* call Commit.stats with its worker pool (rugged_commit.c) and the        *)
(* revision walk of Walker.walk / walker.each / walker.each_oid            *)
(* (rugged_revwalk.c), over a small fixed repository.                      *)
(*                                                                         *)
(* C arrays are 0-based; sequences here are 1-based, so the C slot         *)
(* tasks.tasks[i] is tasks[i + 1] and thread threads[i] is thread i + 1.   *)
(***************************************************************************)
EXTENDS Integers, Sequences, FiniteSets, TLC

(***************************************************************************)
(* Bounds of the model.                                                    *)
(***************************************************************************)
\* longest batch handed to Commit.stats
MaxBatch == 3
\* largest value git_online_cpus() returns
MaxCpus == 2
\* most lines in a diff handed to the line callback
MaxDiffLines == 2

(***************************************************************************)
(* libgit2 error codes used by the extension.                              *)
(***************************************************************************)
GIT_OK == 0
GIT_ERROR == -1
GIT_ENOTFOUND == -3

\* Pointers and Ruby values are records, so that any two of them compare.
NULL == [ptr |-> "NULL"]
Qnil == [nil |-> TRUE]
\* the content of memory that xmalloc returned and nothing has written yet
Indeterminate == [ptr |-> "indeterminate"]
\* a NULL path_only, and a NULL current_task
NoPath == "NULL"
NoTask == -1

(***************************************************************************)
(* The repository the operations run on: commit 1 is a root, 2 and 3 are   *)
(* children of 1, 4 merges 2 (first parent) and 3, 5 is a child of 4.      *)
(* A commit's id is its OID; a larger id is a later committer time.        *)
(***************************************************************************)
Commits == {1, 2, 3, 4, 5}

\* the commits of a second history that shares nothing with the first: 6 is
\* a root and 7 its child; only the repositories of diff_between_repos hold it
ForeignCommits == {6, 7}

\* the ordered parent list of a commit
Parents(c) ==
    CASE c = 1 -> << >>
      [] c = 2 -> <<1>>
      [] c = 3 -> <<1>>
      [] c = 4 -> <<2, 3>>
      [] c = 5 -> <<4>>
      [] c = 6 -> << >>
      [] c = 7 -> <<6>>

git_commit_parentcount(c) == Len(Parents(c))

\* git_commit_id: the OID of a commit object
git_commit_id(c) == c

git_commit_author(c) == [sig |-> "author", of |-> c]

git_commit_committer(c) == [sig |-> "committer", of |-> c % 2]

\* the tree of a commit: a handle on a set of <<path, line>> pairs
git_commit_tree(c) == [tree |-> c]

TreeLines(handle) ==
    LET t == handle.tree IN
    CASE t = 1 -> {<<"a", 1>>, <<"a", 2>>}
      [] t = 2 -> {<<"a", 1>>, <<"a", 3>>, <<"b", 1>>}
      [] t = 3 -> {<<"a", 1>>, <<"a", 2>>, <<"c", 1>>}
      [] t = 4 -> {<<"a", 1>>, <<"a", 3>>, <<"b", 1>>, <<"c", 1>>}
      [] t = 5 -> {<<"a", 3>>, <<"b", 1>>, <<"c", 1>>, <<"c", 2>>}


\* git_diff_tree_to_tree(old, new): the lines of the diff, each with the
\* paths of its file delta and its origin; a NULL tree is the empty tree
git_diff_tree_to_tree(old_tree, new_tree) ==
    LET old == IF old_tree = NULL THEN {} ELSE TreeLines(old_tree)
        new == IF new_tree = NULL THEN {} ELSE TreeLines(new_tree)
        changed == {pl[1] : pl \in (old \ new) \cup (new \ old)}
    IN  {[old_path |-> pl[1], new_path |-> pl[1], origin |-> "+", line |-> pl[2]]
            : pl \in new \ old}
        \cup
        {[old_path |-> pl[1], new_path |-> pl[1], origin |-> "-", line |-> pl[2]]
            : pl \in old \ new}
        \cup
        {[old_path |-> pl[1], new_path |-> pl[1], origin |-> " ", line |-> pl[2]]
            : pl \in {x \in old \cap new : x[1] \in changed}}

\* git_commit_stats_cb with a filter that one of the two paths satisfies
git_commit_stats_cb_either_path(args, line) ==
    IF args.path_only = NoPath
       \/ (args.path_only = line.old_path \/ args.path_only = line.new_path)
    THEN CASE line.origin = "+" -> [args EXCEPT !.adds = @ + 1]
           [] line.origin = "-" -> [args EXCEPT !.dels = @ + 1]
           [] OTHER -> args
    ELSE args

\* git_commit_stats_cb: one call of the line callback
git_commit_stats_cb(args, line) ==
    IF args.path_only = NoPath
       \/ (args.path_only = line.old_path /\ args.path_only = line.new_path)
    THEN CASE line.origin = "+" -> [args EXCEPT !.adds = @ + 1]
           [] line.origin = "-" -> [args EXCEPT !.dels = @ + 1]
           [] OTHER -> args
    ELSE args

\* git_diff_foreach with git_commit_stats_cb as its line callback
RECURSIVE git_diff_foreach(_, _)
git_diff_foreach(diff, args) ==
    IF diff = {} THEN args
    ELSE LET line == CHOOSE l \in diff : TRUE
         IN  git_diff_foreach(diff \ {line}, git_commit_stats_cb(args, line))

\* lines 50-56 of git_commit_stats_of: the adds and dels it stores for the
\* diff that git_diff_tree_to_tree made
git_commit_stats_of_diff(diff, path_only) ==
    LET args == git_diff_foreach(diff, [adds |-> 0, dels |-> 0, path_only |-> path_only])
    IN  [adds |-> args.adds, dels |-> args.dels]

\* git_commit_stats_of on success: the adds and dels it stores
git_commit_stats_of(tree, parent_tree, path_only) ==
    git_commit_stats_of_diff(git_diff_tree_to_tree(parent_tree, tree), path_only)

\* rugged_exception_check(error) raises exactly when error is negative
rugged_exception_check(error) == error < 0

(***************************************************************************)
(* State.                                                                  *)
(***************************************************************************)
VARIABLES
    \* ---- Commit.stats (rb_git_commit_stats) ----
    spc,          \* position of the calling thread in rb_git_commit_stats
    rb_commits,   \* the batch: a sequence of commits
    nr_threads,   \* size of the worker pool
    tasks,        \* tasks.tasks: one slot per commit of the batch
    top,          \* tasks.top, the shared claim counter
    mutex,        \* tasks.mutex: 0 when unlocked, else the thread that holds it
    threads,      \* the workers: state, current_task, error, cancel request
    i,            \* loop index of the calling thread
    error,        \* the local `error` of rb_git_commit_stats
    os_errno,     \* the local `os_errno` of rb_git_commit_stats
    rb_results,   \* the result array, Qnil until it is built
    outcome,      \* how the call ended: "none", "returned", "raised", "crashed"
    joined,       \* the threads pthread_join has returned for
    claimer,      \* claimer[k]: the threads that claimed slot k
    failed,       \* the steps of the call that failed so far
    handles,      \* for each slot, who opened, used and freed what it holds
    \* ---- Walker.walk, walker.each, walker.each_oid ----
    wpc,          \* position of the call: "idle", "walking", "finish", "done"
    entry,        \* the method called: "walk", "each" or "each_oid"
    opts,         \* the options as the caller gave them
    w,            \* struct walk_options
    walker,       \* the git_revwalk the call walks
    corrupt,      \* the object of the store that cannot be read, if any
    yielded,      \* the results handed to the caller's block so far
    exception,    \* the pending non-local exit: "none", "error" or "break"
    wfail,        \* the number of results yielded when a commit's processing failed
    wexit,        \* why do_walk ended
    woutcome,     \* how the call ended: "none", "returned", "raised", "break"
    walk_created, \* the number of walkers rb_git_walk created
    walk_freed,   \* the number of git_revwalk_free calls of rb_git_walk
    lookups,      \* the commits do_walk looked up: freed, owned by a result, held
    \* ---- walker.push, walker.hide ----
    pwalk,        \* the git_revwalk of the Walker object push and hide are called on
    pcall,        \* the last call: its method, its argument, the walker before it
    \* ---- Commit.diff_between_repos (rb_git_commit_diff_between_repos) ----
    dpc,          \* position of the call: "idle", "chain", "bases", "walk", "done"
    dargs,        \* the arguments: repo1, rb_commit1, repo2, rb_commit2
    oids,         \* the array oids[2]; oids[1] is *oid1's target, oids[2] is *oid2
    oid1,         \* the pointer oid1: "oids0" (&oids[0]) or "NULL"
    odb2,         \* the handle odb2: "closed", "open" or "freed"
    odb_reads,    \* the number of reads of either repository's object database
    rb_oids,      \* the result array
    doutcome,     \* how the call ended: "none", "returned", "ArgumentError", "raised"
    \* ---- Object.lookup, Object.exists? ----
    ocall,        \* the last call: its method, class and string
    oresult,      \* what the last call raised or returned
    \* ---- commit.parents, commit.parent, commit.parent_ids ----
    cself,          \* the Commit object the accessors are called on
    parents_ret,    \* what commit.parents raised or returned
    parent_ret,     \* what commit.parent raised or returned
    parent_ids_ret, \* what commit.parent_ids raised or returned
    \* ---- Commit.create (rb_git_commit_create) ----
    kpc,          \* position of the call
    rb_data,      \* the hash of arguments
    acquired,     \* what the call acquired so far: signatures, tree, parents
    released,     \* what the call released so far
    parents,      \* the array `parents`, parent_count elements long
    free_list,    \* the array `free_list`: what to free for each parent, or NULL
    ki,           \* the loop index i
    kerror,       \* the local `error`
    rb_err_obj,   \* the exception to raise after the cleanup, or Qnil
    koutcome,     \* how the call ended: "none", "returned", or what it raised
    \* ---- Object.commitish, commitish_id, treeish, treeish_id ----
    rcall,        \* the last call: its method, its revision expression
    rresult,      \* what the last call raised or returned
    \* ---- rugged_commit_stats_of ----
    scall,        \* the last call: its commit or diff, its path filter
    sresult       \* what the last call raised or returned

statsVars == <<spc, rb_commits, nr_threads, tasks, top, mutex, threads, i, error,
               os_errno, rb_results, outcome, joined, claimer, failed, handles>>

pushVars == <<pwalk, pcall>>

walkVars == <<wpc, entry, opts, w, walker, corrupt, yielded, exception, wfail,
              wexit, woutcome, walk_created, walk_freed, lookups, pushVars>>

dbrVars == <<dpc, dargs, oids, oid1, odb2, odb_reads, rb_oids, doutcome>>

\* the state of the calls other than Commit.stats and the walks
objVars == <<ocall, oresult>>

parVars == <<cself, parents_ret, parent_ret, parent_ids_ret>>

crtVars == <<kpc, rb_data, acquired, released, parents, free_list, ki, kerror,
             rb_err_obj, koutcome>>

ishVars == <<rcall, rresult>>

sofVars == <<scall, sresult>>

restVars == <<dbrVars, objVars, parVars, crtVars, ishVars, sofVars>>

vars == <<statsVars, walkVars, restVars>>

(***************************************************************************)
(* Commit.stats: rb_git_commit_stats and its workers commit_stat_task_proc *)
(***************************************************************************)
\* the commits a batch is made of: a root commit, a merge and a commit with
\* one parent; a batch runs through them cyclically from any of the three
BatchCommits == <<1, 4, 2>>

Batches == {[k \in 1..n |-> BatchCommits[((k + r) % 3) + 1]] :
                n \in 0..MaxBatch, r \in 0..2}

Min(a, b) == IF a < b THEN a ELSE b

arrlen == Len(rb_commits)

ZeroTask == [tree |-> NULL, parent_tree |-> NULL, stats |-> NULL]

GarbageTask == [tree |-> Indeterminate, parent_tree |-> Indeterminate,
                stats |-> Indeterminate]

\* a thread: where it is, the slot it claimed, the error it returned, whether
\* a pthread_cancel is pending, and its rank among the workers that failed
\* (1 for the first to fail, 0 when it did not fail)
NoThread == [state |-> "unborn", current_task |-> NoTask, error |-> GIT_OK,
             cancel |-> FALSE, failed_at |-> 0]

\* the calling thread, among the threads 1..nr_threads it creates
MainThread == 0

\* what happened to the resources of one slot: the threads that opened, used
\* and freed its tree handles, how often its stats record was allocated and
\* released, and whether the slot was read before it was written
NoHandles == [opened_by |-> {}, used_by |-> {}, freed_by |-> {},
              allocated |-> 0, released |-> 0, read_unwritten |-> FALSE]

\* lines 684-692: the calling thread opened the trees of the slot and
\* allocated its stats record
Prepared(task, h) ==
    [h EXCEPT !.opened_by = IF task.tree # NULL \/ task.parent_tree # NULL
                            THEN @ \cup {MainThread} ELSE @,
              !.allocated = IF task.stats # NULL THEN @ + 1 ELSE @]

\* lines 729-737: the loop after WRONG reads the slot and releases its
\* stats record
Released(task, h) ==
    [h EXCEPT !.released = IF task.stats \notin {NULL, Indeterminate} THEN @ + 1 ELSE @,
              !.read_unwritten = @ \/ task.stats = Indeterminate]

\* lines 739-744: the loop after CLEAN reads the slot and frees its trees
Freed(task, h) ==
    [h EXCEPT !.freed_by = IF task.tree \notin {NULL, Indeterminate}
                              \/ task.parent_tree \notin {NULL, Indeterminate}
                           THEN @ \cup {MainThread} ELSE @,
              !.read_unwritten = @ \/ task.tree = Indeterminate]

StatsInit ==
    /\ spc = "idle"
    /\ rb_commits = << >>
    /\ nr_threads = 0
    /\ tasks = << >>
    /\ top = 0
    /\ mutex = 0
    /\ threads = << >>
    /\ i = 0
    /\ error = GIT_OK
    /\ os_errno = 0
    /\ rb_results = Qnil
    /\ outcome = "none"
    /\ joined = {}
    /\ claimer = << >>
    /\ failed = {}
    /\ handles = << >>

\* lines 651-669: size the pool, allocate the arrays, initialise the mutex
StatsEnter ==
    /\ spc = "idle"
    /\ \E batch \in Batches, cpus \in 1..MaxCpus, mutex_ok \in BOOLEAN :
        /\ rb_commits' = batch
        /\ nr_threads' = Min(Len(batch), cpus)
        /\ threads' = [t \in 1..Min(Len(batch), cpus) |-> NoThread]
        /\ claimer' = [k \in 1..Len(batch) |-> {}]
        /\ top' = 0
        /\ IF mutex_ok
           THEN /\ tasks' = [k \in 1..Len(batch) |-> ZeroTask]
                /\ spc' = "prep"
                /\ UNCHANGED <<os_errno, failed>>
           ELSE /\ tasks' = [k \in 1..Len(batch) |-> GarbageTask]
                /\ os_errno' = 11
                /\ failed' = failed \cup {"mutex_init"}
                /\ spc' = "WRONG"
    /\ i' = 0
    /\ UNCHANGED <<mutex, error, rb_results, outcome, joined>>
    /\ handles' = [k \in 1..Len(rb_commits') |-> NoHandles]
    /\ UNCHANGED <<walkVars, restVars>>

\* what one pass of the preparation loop (lines 672-699) leaves in slot i
\* when the step `fault` fails ("none": nothing fails)
PrepSlot(commit, fault) ==
    LET has_parent == git_commit_parentcount(commit) > 0
        parent_tree == IF has_parent /\ fault # "parent_tree"
                       THEN git_commit_tree(Parents(commit)[1]) ELSE NULL
        tree == IF fault \in {"parent", "parent_tree", "tree"}
                THEN NULL ELSE git_commit_tree(commit)
        stats == IF fault \in {"parent", "parent_tree", "tree"} THEN NULL
                 ELSE [adds |-> 0, dels |-> 0,
                       committer |-> IF fault = "committer" THEN NULL
                                     ELSE git_commit_committer(commit),
                       author |-> IF fault \in {"committer", "author"} THEN NULL
                                  ELSE git_commit_author(commit),
                       oid |-> IF fault = "none" THEN git_commit_id(commit)
                               ELSE 0]
    IN  IF fault = "parent" THEN ZeroTask
        ELSE [tree |-> tree, parent_tree |-> parent_tree, stats |-> stats]

\* lines 671-700: one pass of the preparation loop
StatsPrepare ==
    /\ spc = "prep"
    /\ i < arrlen
    /\ LET commit == rb_commits[i + 1] IN
       \E fault \in {"none", "parent", "parent_tree", "tree", "committer", "author"} :
        /\ fault = "parent_tree" => git_commit_parentcount(commit) > 0
        /\ tasks' = [tasks EXCEPT ![i + 1] = PrepSlot(commit, fault)]
        /\ IF fault = "none"
           THEN /\ i' = i + 1
                /\ UNCHANGED <<spc, error, failed>>
           ELSE /\ error' = GIT_ERROR
                /\ failed' = failed \cup {"prepare"}
                /\ spc' = "WRONG"
                /\ UNCHANGED i
    /\ UNCHANGED <<rb_commits, nr_threads, top, mutex, threads, os_errno,
                   rb_results, outcome, joined, claimer>>
    /\ handles' = [handles EXCEPT ![i + 1] = Prepared(tasks'[i + 1], @)]
    /\ UNCHANGED <<walkVars, restVars>>

\* line 671: the preparation loop ends
StatsPrepared ==
    /\ spc = "prep"
    /\ i = arrlen
    /\ spc' = "create"
    /\ i' = 0
    /\ UNCHANGED <<rb_commits, nr_threads, tasks, top, mutex, threads, error,
                   os_errno, rb_results, outcome, joined, claimer, failed>>
    /\ UNCHANGED <<handles, walkVars, restVars>>

\* pthread_cancel on each thread of `ts`
Cancel(ts) ==
    [t \in DOMAIN threads |->
        IF t \in ts THEN [threads[t] EXCEPT !.cancel = TRUE] ELSE threads[t]]

\* lines 702-708: one pass of the thread-creation loop
StatsCreate ==
    /\ spc = "create"
    /\ i < nr_threads
    /\ \/ /\ threads' = [threads EXCEPT ![i + 1].state = "lock"]
          /\ i' = i + 1
          /\ UNCHANGED <<spc, os_errno, failed>>
       \/ /\ threads' = Cancel(1..i)
          /\ os_errno' = 11
          /\ failed' = failed \cup {"create"}
          /\ spc' = "WRONG"
          /\ UNCHANGED i
    /\ UNCHANGED <<rb_commits, nr_threads, tasks, top, mutex, error, rb_results,
                   outcome, joined, claimer>>
    /\ UNCHANGED <<handles, walkVars, restVars>>

\* line 702: the creation loop ends
StatsCreated ==
    /\ spc = "create"
    /\ i = nr_threads
    /\ spc' = "join"
    /\ i' = 0
    /\ UNCHANGED <<rb_commits, nr_threads, tasks, top, mutex, threads, error,
                   os_errno, rb_results, outcome, joined, claimer, failed>>
    /\ UNCHANGED <<handles, walkVars, restVars>>

\* the join loop going on after a worker returned an error
StatsJoinNoStop ==
    /\ spc = "join"
    /\ i < nr_threads
    /\ threads[i + 1].state = "exited"
    /\ error' = IF threads[i + 1].error # GIT_OK THEN threads[i + 1].error ELSE error
    /\ joined' = joined \cup {i + 1}
    /\ i' = i + 1
    /\ UNCHANGED <<spc, rb_commits, nr_threads, tasks, top, mutex, threads, os_errno,
                   rb_results, outcome, claimer, failed>>
    /\ UNCHANGED <<handles, walkVars, restVars>>

\* lines 709-720: one pass of the join loop
StatsJoin ==
    /\ spc = "join"
    /\ i < nr_threads
    /\ \/ \* pthread_join fails
          /\ threads' = Cancel((i + 2)..nr_threads)
          /\ os_errno' = 3
          /\ failed' = failed \cup {"join"}
          /\ spc' = "WRONG"
          /\ UNCHANGED <<i, error, joined>>
       \/ \* pthread_join returns once the thread has ended
          /\ threads[i + 1].state = "exited"
          /\ error' = threads[i + 1].error
          /\ joined' = joined \cup {i + 1}
          /\ IF threads[i + 1].error # GIT_OK
             THEN /\ threads' = Cancel((i + 2)..nr_threads)
                  /\ spc' = "WRONG"
                  /\ UNCHANGED i
             ELSE /\ i' = i + 1
                  /\ UNCHANGED <<threads, spc>>
          /\ UNCHANGED <<os_errno, failed>>
    /\ UNCHANGED <<rb_commits, nr_threads, tasks, top, mutex, rb_results,
                   outcome, claimer>>
    /\ UNCHANGED <<handles, walkVars, restVars>>

\* lines 722-726: every thread joined without error, build the result array
StatsResults ==
    /\ spc = "join"
    /\ i = nr_threads
    /\ rb_results' = [ary |-> [k \in 1..arrlen |-> tasks[k].stats]]
    /\ spc' = "CLEAN"
    /\ UNCHANGED <<rb_commits, nr_threads, tasks, top, mutex, threads, i, error,
                   os_errno, outcome, joined, claimer, failed>>
    /\ UNCHANGED <<handles, walkVars, restVars>>

\* lines 748-753: raise for os_errno, raise for error, or return rb_results
StatsOutcome == IF os_errno # 0 \/ rugged_exception_check(error)
                THEN "raised" ELSE "returned"

\* lines 728-753: release the stats records, then fall through to CLEAN.
\* Slots that were never written hold indeterminate pointers: the loop may
\* read them as NULL, or as garbage that it dereferences and frees.
StatsWrong ==
    /\ spc = "WRONG"
    /\ \E read \in {"null", "garbage", "garbage_fatal"} :
        /\ read # "null" => \E k \in DOMAIN tasks : tasks[k].stats = Indeterminate
        /\ outcome' = IF read = "garbage_fatal" THEN "crashed" ELSE StatsOutcome
    /\ tasks' = << >>
    /\ spc' = "done"
    /\ UNCHANGED <<rb_commits, nr_threads, top, mutex, threads, i, error, os_errno,
                   rb_results, joined, claimer, failed>>
    /\ handles' = [k \in DOMAIN handles |-> Freed(tasks[k], Released(tasks[k], handles[k]))]
    /\ UNCHANGED <<walkVars, restVars>>

\* lines 738-753 on the success path
StatsClean ==
    /\ spc = "CLEAN"
    /\ outcome' = StatsOutcome
    /\ tasks' = << >>
    /\ spc' = "done"
    /\ UNCHANGED <<rb_commits, nr_threads, top, mutex, threads, i, error, os_errno,
                   rb_results, joined, claimer, failed>>
    /\ handles' = [k \in DOMAIN handles |-> Freed(tasks[k], handles[k])]
    /\ UNCHANGED <<walkVars, restVars>>

Running(t) == threads[t].state \in {"lock", "claim", "increment", "unlock", "check"}

\* the worker returns `err` (lines 637-638)
WorkerReturn(t, err) ==
    threads' = [threads EXCEPT
        ![t].state = "exited",
        ![t].error = err,
        ![t].failed_at = IF err = GIT_OK THEN 0
                         ELSE 1 + Cardinality({u \in DOMAIN threads : threads[u].failed_at > 0})]

\* pthread_mutex_lock that returns while another thread holds the mutex
WorkerLockUnguarded(t) ==
    /\ spc # "done"
    /\ threads[t].state = "lock"
    /\ mutex' = t
    /\ threads' = [threads EXCEPT ![t].state = "claim"]
    /\ UNCHANGED <<spc, rb_commits, nr_threads, tasks, top, i, error, os_errno,
                   rb_results, outcome, joined, claimer, failed>>
    /\ UNCHANGED <<handles, walkVars, restVars>>

\* lines 613-617: pthread_mutex_lock
WorkerLock(t) ==
    /\ spc # "done"
    /\ threads[t].state = "lock"
    /\ \/ /\ mutex = 0
          /\ mutex' = t
          /\ threads' = [threads EXCEPT ![t].state = "claim"]
          /\ UNCHANGED failed
       \/ /\ WorkerReturn(t, GIT_ERROR)
          /\ failed' = failed \cup {"worker"}
          /\ UNCHANGED mutex
    /\ UNCHANGED <<spc, rb_commits, nr_threads, tasks, top, i, error, os_errno,
                   rb_results, outcome, joined, claimer>>
    /\ UNCHANGED <<handles, walkVars, restVars>>

\* the value of payload->top after a claim
NextTopSkipping(n) == n + 2

NextTop(n) == n + 1

\* lines 618-621: read payload->top and take the slot it names, under the
\* mutex
WorkerClaim(t) ==
    /\ spc # "done"
    /\ threads[t].state = "claim"
    /\ IF top >= arrlen
       THEN /\ threads' = [threads EXCEPT ![t].state = "unlock",
                                          ![t].current_task = NoTask]
            /\ UNCHANGED claimer
       ELSE /\ threads' = [threads EXCEPT ![t].state = "increment",
                                          ![t].current_task = top]
            /\ claimer' = [claimer EXCEPT ![top + 1] = @ \cup {t}]
    /\ UNCHANGED <<spc, rb_commits, nr_threads, tasks, top, mutex, i, error, os_errno,
                   rb_results, outcome, joined, failed>>
    /\ UNCHANGED <<handles, walkVars, restVars>>

\* line 622: payload->top++, under the mutex
WorkerIncrement(t) ==
    /\ spc # "done"
    /\ threads[t].state = "increment"
    /\ top' = NextTop(top)
    /\ threads' = [threads EXCEPT ![t].state = "unlock"]
    /\ UNCHANGED <<spc, rb_commits, nr_threads, tasks, mutex, i, error, os_errno,
                   rb_results, outcome, joined, claimer, failed>>
    /\ UNCHANGED <<handles, walkVars, restVars>>

\* lines 624-630: pthread_mutex_unlock, then leave the loop when nothing was
\* left to claim
WorkerUnlock(t) ==
    /\ spc # "done"
    /\ threads[t].state = "unlock"
    /\ \/ /\ mutex' = 0
          /\ IF threads[t].current_task = NoTask
             THEN WorkerReturn(t, GIT_OK)
             ELSE threads' = [threads EXCEPT ![t].state = "check"]
          /\ UNCHANGED failed
       \/ /\ WorkerReturn(t, GIT_ERROR)
          /\ failed' = failed \cup {"worker"}
          /\ UNCHANGED mutex
    /\ UNCHANGED <<spc, rb_commits, nr_threads, tasks, top, i, error, os_errno,
                   rb_results, outcome, joined, claimer>>
    /\ UNCHANGED <<handles, walkVars, restVars>>

\* the worker of line 631 computing the stats of the first slot, not of the
\* slot it claimed
WorkerStatsFirstSlot(t) ==
    /\ spc # "done"
    /\ threads[t].state = "check"
    /\ tasks' = [tasks EXCEPT ![1].stats =
            LET r == git_commit_stats_of(tasks[1].tree, tasks[1].parent_tree, NoPath)
            IN  [@ EXCEPT !.adds = r.adds, !.dels = r.dels]]
    /\ threads' = [threads EXCEPT ![t].state = "lock"]
    /\ handles' = [handles EXCEPT ![1].used_by = @ \cup {t}]
    /\ UNCHANGED <<spc, rb_commits, nr_threads, top, mutex, i, error, os_errno,
                   rb_results, outcome, joined, claimer, failed>>
    /\ UNCHANGED <<walkVars, restVars>>

\* lines 631-634: compute the stats of the claimed slot
WorkerStats(t) ==
    /\ spc # "done"
    /\ threads[t].state = "check"
    /\ LET k == threads[t].current_task + 1 IN
       \/ /\ tasks' = [tasks EXCEPT ![k].stats =
                LET r == git_commit_stats_of(tasks[k].tree, tasks[k].parent_tree, NoPath)
                IN  [@ EXCEPT !.adds = r.adds, !.dels = r.dels]]
          /\ threads' = [threads EXCEPT ![t].state = "lock"]
          /\ UNCHANGED failed
       \/ /\ WorkerReturn(t, GIT_ERROR)
          /\ failed' = failed \cup {"worker"}
          /\ UNCHANGED tasks
    /\ UNCHANGED <<spc, rb_commits, nr_threads, top, mutex, i, error, os_errno,
                   rb_results, outcome, joined, claimer>>
    /\ handles' = [handles EXCEPT ![threads[t].current_task + 1].used_by = @ \cup {t}]
    /\ UNCHANGED <<walkVars, restVars>>

\* a pending pthread_cancel takes effect at a cancellation point, which only
\* the file reads inside git_commit_stats_of offer
WorkerCancelled(t) ==
    /\ spc # "done"
    /\ threads[t].state = "check"
    /\ threads[t].cancel
    /\ threads' = [threads EXCEPT ![t].state = "cancelled"]
    /\ UNCHANGED <<spc, rb_commits, nr_threads, tasks, top, mutex, i, error,
                   os_errno, rb_results, outcome, joined, claimer, failed>>
    /\ UNCHANGED <<handles, walkVars, restVars>>

\* Once line 746 has freed the task array (spc = "done") the steps of a worker
\* that is still running are undefined behaviour; no action models them.
(***************************************************************************)
(* Properties of Commit.stats.                                             *)
(***************************************************************************)
\* the lines of the diff of commit c against its first parent (the empty
\* tree for a root commit)
CommitDiff(c) ==
    git_diff_tree_to_tree(
        IF Parents(c) = << >> THEN NULL ELSE git_commit_tree(Parents(c)[1]),
        git_commit_tree(c))

\* the stats record of commit c
StatsOfCommit(c) ==
    [adds |-> Cardinality({l \in CommitDiff(c) : l.origin = "+"}),
     dels |-> Cardinality({l \in CommitDiff(c) : l.origin = "-"}),
     committer |-> git_commit_committer(c),
     author |-> git_commit_author(c),
     oid |-> git_commit_id(c)]

\* C1: when Commit.stats succeeds, the result at index k carries the OID,
\* the signatures and the added/deleted counts of input commit k, for every
\* batch, every pool size and every interleaving of the workers.
C1_ResultsFollowInputOrder ==
    (spc = "done" /\ outcome = "returned") =>
        /\ rb_results # Qnil
        /\ Len(rb_results.ary) = arrlen
        /\ \A k \in 1..arrlen : rb_results.ary[k] = StatsOfCommit(rb_commits[k])

\* a successful call on a batch of at least two commits whose slots were
\* claimed by two different workers
C1_Witness ==
    /\ spc = "done"
    /\ outcome = "returned"
    /\ rb_results # Qnil
    /\ arrlen >= 2
    /\ \E j, k \in 1..arrlen : claimer[j] # claimer[k]

\* C2: whenever a step of Commit.stats fails (mutex initialisation,
\* preparation, thread creation, join, a worker), the call raises and no
\* result array exists.
C2_FailureRaisesWithoutResults ==
    (spc = "done" /\ failed # {}) => (outcome = "raised" /\ rb_results = Qnil)

\* C3: when Commit.stats has freed the task array and ended, no worker it
\* spawned is still running: every spawned worker has been joined.
C3_WorkersJoinedBeforeFree ==
    spc = "done" =>
        \A t \in DOMAIN threads :
            threads[t].state # "unborn" => (~Running(t) /\ t \in joined)

\* C30: under fair scheduling Commit.stats ends for every batch and every
\* pool: every worker that was started leaves its loop, and the call returns
\* a result or raises; for an empty batch it starts no worker and, when
\* nothing fails, returns an empty array.
C30_StatsTerminates ==
    /\ <>(/\ spc = "done"
          /\ outcome \in {"returned", "raised"}
          /\ \A t \in DOMAIN threads : ~Running(t))
    /\ [](arrlen = 0 => \A t \in DOMAIN threads : threads[t].state = "unborn")
    /\ []((spc = "done" /\ arrlen = 0 /\ failed = {}) =>
            (outcome = "returned" /\ rb_results = [ary |-> << >>]))

\* C24: when a step of Commit.stats failed and the call has ended, every
\* stats record that was allocated has been released exactly once, and no
\* slot was read that had never been written.
C24_FailureReleasesEachRecordOnce ==
    (spc = "done" /\ failed # {}) =>
        \A k \in DOMAIN handles :
            /\ handles[k].released = handles[k].allocated
            /\ ~handles[k].read_unwritten

\* the call raised for the error a worker returned
WorkerErrorSurfaced ==
    /\ spc = "done"
    /\ outcome = "raised"
    /\ os_errno = 0
    /\ "worker" \in failed

\* C23 as claimed: the error raised is the one of the worker that failed
\* first in time.
C23_FirstFailureInTimeSurfaces ==
    WorkerErrorSurfaced =>
        \E t \in DOMAIN threads :
            /\ threads[t].failed_at = 1
            /\ t \in joined
            /\ \A u \in joined : threads[u].error # GIT_OK => u = t

\* C23, amended: the error raised is the one of the failed worker with the
\* lowest index, the first the join loop comes to, whenever it failed; the
\* errors of the other workers are never read.
C23_FirstJoinedFailureSurfaces ==
    WorkerErrorSurfaced =>
        /\ i + 1 \in joined
        /\ threads[i + 1].error # GIT_OK
        /\ error = threads[i + 1].error
        /\ \A u \in DOMAIN threads :
              (threads[u].error # GIT_OK /\ u # i + 1) => (u > i + 1 /\ u \notin joined)

\* two workers failed, the second before the first, and the call raised for
\* the error of the first
C23_Witness ==
    /\ WorkerErrorSurfaced
    /\ Len(threads) = 2
    /\ threads[1].failed_at = 2
    /\ threads[2].failed_at = 1
    /\ i + 1 = 1

C21_ClaimsAreExclusive ==
    [][/\ top' >= top
       /\ top' \in 0..Len(rb_commits')
       /\ \A k \in DOMAIN claimer' : Cardinality(claimer'[k]) <= 1
       /\ (/\ threads' # << >>
           /\ \A t \in DOMAIN threads' :
                 threads'[t].state = "exited" /\ threads'[t].error = GIT_OK)
            => /\ top' = Len(rb_commits')
               /\ \A k \in DOMAIN claimer' : Cardinality(claimer'[k]) = 1]_vars

\* two workers have both ended without error after each claimed an index
\* of the batch
C21_Witness ==
    /\ Len(threads) = 2
    /\ \A t \in DOMAIN threads : threads[t].state = "exited" /\ threads[t].error = GIT_OK
    /\ \E j, k \in DOMAIN claimer : claimer[j] = {1} /\ claimer[k] = {2}

StatsNext ==
    \/ StatsEnter
    \/ StatsPrepare
    \/ StatsPrepared
    \/ StatsCreate
    \/ StatsCreated
    \/ StatsJoin
    \/ StatsResults
    \/ StatsWrong
    \/ StatsClean
    \/ \E t \in DOMAIN threads : WorkerLock(t)
    \/ \E t \in DOMAIN threads : WorkerClaim(t)
    \/ \E t \in DOMAIN threads : WorkerIncrement(t)
    \/ \E t \in DOMAIN threads : WorkerUnlock(t)
    \/ \E t \in DOMAIN threads : WorkerStats(t)
    \/ \E t \in DOMAIN threads : WorkerCancelled(t)

(***************************************************************************)
(* The revision walker of libgit2 that the extension drives.               *)
(***************************************************************************)
RECURSIVE Ancestors(_)
Ancestors(c) ==
    {c} \cup UNION {Ancestors(Parents(c)[k]) : k \in 1..Len(Parents(c))}

Reachable(tips) == UNION {Ancestors(c) : c \in tips}

Range(seq) == {seq[k] : k \in DOMAIN seq}

\* the commits of S, latest committer time first
RECURSIVE SortByTime(_)
SortByTime(S) ==
    IF S = {} THEN << >>
    ELSE LET latest == CHOOSE x \in S : \A y \in S : y <= x
         IN  <<latest>> \o SortByTime(S \ {latest})

\* a new walker: nothing pushed, nothing hidden, nothing returned yet
git_revwalk_new == [pushed |-> << >>, hidden |-> << >>, cursor |-> 0]

\* the commits a walker returns, in order: those reachable from a pushed tip
\* and from no hidden tip, each once
RevList(walk) ==
    SortByTime(Reachable(Range(walk.pushed)) \ Reachable(Range(walk.hidden)))

GIT_ITEROVER == -31

\* git_revwalk_next: the next commit of the walk, or GIT_ITEROVER
git_revwalk_next(walk) ==
    IF walk.cursor < Len(RevList(walk))
    THEN [error |-> GIT_OK, oid |-> RevList(walk)[walk.cursor + 1],
          walk |-> [walk EXCEPT !.cursor = @ + 1]]
    ELSE [error |-> GIT_ITEROVER, oid |-> 0, walk |-> walk]

(***************************************************************************)
(* Pushing and hiding tips (push_commit and its helpers).                  *)
(***************************************************************************)
\* push_commit_oid: git_revwalk_push or git_revwalk_hide, which fail for an
\* OID that names no commit of the repository; the failure is raised
push_commit_oid(walk, oid, hide) ==
    IF oid \notin Commits THEN [walk |-> walk, raised |-> TRUE]
    ELSE IF hide THEN [walk |-> [walk EXCEPT !.hidden = Append(@, oid)], raised |-> FALSE]
    ELSE [walk |-> [walk EXCEPT !.pushed = Append(@, oid)], raised |-> FALSE]

\* push_commit on a sequence of tips: the elements are pushed in order and the
\* first failure raises, leaving the earlier ones pushed.  A single tip is a
\* sequence of one element.
RECURSIVE push_commit(_, _, _)
push_commit(walk, rb_commit, hide) ==
    IF rb_commit = << >> THEN [walk |-> walk, raised |-> FALSE]
    ELSE LET r == push_commit_oid(walk, Head(rb_commit), hide)
         IN  IF r.raised THEN r ELSE push_commit(r.walk, Tail(rb_commit), hide)

(***************************************************************************)
(* Options of a walk.                                                      *)
(***************************************************************************)
\* largest offset and largest limit a caller gives
MaxOffset == 2
MaxLimit == 2

UINT64_MAX == -1
\* uint64_t values are written in two's complement: -k stands for 2^64 - k.
\* The code only decrements them and compares them with zero, and both are
\* exact in this reading.
DecU64(n) == n - 1

\* an optional number: {} when the option is absent, {n} when it is n
OptNat(max) == {{}} \cup {{n} : n \in 0..max}

\* the tips given as show: none, one tip, the same tip twice, two tips with
\* a shared ancestor, and sequences holding 0, an OID that names no commit
ShowSpecs == {<< >>, <<4>>, <<4, 4>>, <<3, 4>>, <<0>>, <<3, 0, 4>>}

\* the tips given as hide
HideSpecs == {<< >>, <<2>>, <<0>>}

WalkOpts == [offset : OptNat(MaxOffset), limit : OptNat(MaxLimit),
             no_merges : BOOLEAN, stats_only : BOOLEAN, oid_only : BOOLEAN,
             show : ShowSpecs, hide : HideSpecs]

\* walker.each and walker.each_oid read only these four options
EachOpts == {o \in WalkOpts : ~o.oid_only /\ o.show = << >> /\ o.hide = << >>}

NoOpts == [offset |-> {}, limit |-> {}, no_merges |-> FALSE, stats_only |-> FALSE,
           oid_only |-> FALSE, show |-> << >>, hide |-> << >>]

\* the object of the store that cannot be read
Corruptions ==
    {[kind |-> "none", commit |-> 0], [kind |-> "lookup", commit |-> 3],
     [kind |-> "tree", commit |-> 3], [kind |-> "tree", commit |-> 1],
     [kind |-> "diff", commit |-> 3]}

\* load_walk_limits (lines 220-244)
load_walk_limits(w0, rb_options) ==
    LET w1 == IF rb_options.offset = {} THEN w0
              ELSE [w0 EXCEPT !.offset = CHOOSE n \in rb_options.offset : TRUE]
        w2 == IF rb_options.limit = {} THEN w1
              ELSE [w1 EXCEPT !.limit = CHOOSE n \in rb_options.limit : TRUE]
        w3 == IF rb_options.no_merges THEN [w2 EXCEPT !.no_merges = TRUE] ELSE w2
    IN  IF rb_options.stats_only
        THEN [w3 EXCEPT !.no_merges = TRUE, !.stats_only = TRUE]
        ELSE w3

\* load_all_options (lines 246-281): the limits, then show, hide and oid_only;
\* a tip that cannot be pushed raises and ends the loading there
load_all_options(w0, walk0, rb_options) ==
    LET w1 == load_walk_limits(w0, rb_options)
        shown == push_commit(walk0, rb_options.show, FALSE)
        hidden == push_commit(shown.walk, rb_options.hide, TRUE)
    IN  IF shown.raised THEN [w |-> w1, walk |-> shown.walk, raised |-> TRUE]
        ELSE IF hidden.raised THEN [w |-> w1, walk |-> hidden.walk, raised |-> TRUE]
        ELSE [w |-> IF rb_options.oid_only THEN [w1 EXCEPT !.oid_only = TRUE] ELSE w1,
              walk |-> hidden.walk, raised |-> FALSE]

(***************************************************************************)
(* One commit of a walk.                                                   *)
(***************************************************************************)
Unreadable(bad, kind, c) == bad.kind = kind /\ bad.commit = c

\* rb_git_walker_stats_cb with the two counters exchanged
WalkerStatsExchanged(diff) ==
    [adds |-> Cardinality({l \in diff : l.origin = "-"}),
     dels |-> Cardinality({l \in diff : l.origin = "+"})]

\* rb_git_walker_stats_cb folded over the lines of a diff (lines 289-304, 362)
WalkerStats(diff) ==
    [adds |-> Cardinality({l \in diff : l.origin = "+"}),
     dels |-> Cardinality({l \in diff : l.origin = "-"})]

\* apply_walk_options (lines 317-373): Qnil for a merge that no_merges skips,
\* else a Commit or a CommitStats, or an exception
apply_walk_options(wo, commit, bad) ==
    IF wo.no_merges /\ git_commit_parentcount(commit) > 1
    THEN [result |-> Qnil, raised |-> FALSE]
    ELSE IF ~wo.stats_only
    THEN [result |-> [kind |-> "commit", oid |-> git_commit_id(commit)],
          raised |-> FALSE]
    ELSE IF Unreadable(bad, "tree", commit)
    THEN [result |-> Qnil, raised |-> TRUE]
    ELSE IF Parents(commit) # << >> /\ Unreadable(bad, "tree", Parents(commit)[1])
    THEN [result |-> Qnil, raised |-> TRUE]
    ELSE IF Unreadable(bad, "diff", commit)
    THEN [result |-> Qnil, raised |-> TRUE]
    ELSE LET right_tree == IF Parents(commit) = << >> THEN NULL
                           ELSE git_commit_tree(Parents(commit)[1])
             counts == WalkerStats(git_diff_tree_to_tree(right_tree,
                                                         git_commit_tree(commit)))
         IN  [result |-> [kind |-> "stats",
                          stats |-> [adds |-> counts.adds, dels |-> counts.dels,
                                     committer |-> git_commit_committer(commit),
                                     author |-> git_commit_author(commit),
                                     oid |-> git_commit_id(commit)]],
              raised |-> FALSE]

\* rb_protect: the result of the call, or Qnil and a set exception state when
\* the call raised
rb_protect(r) ==
    IF r.raised THEN [result |-> Qnil, exception |-> TRUE]
    ELSE [result |-> r.result, exception |-> FALSE]

\* the body of the loop of do_walk (lines 382-412) for the commit `oid`:
\*   "offset"  the commit is consumed by the offset
\*   "yield"   `value` is handed to the block
\*   "nil"     the result was Qnil: the commit is dropped and the loop continues
\*             (`swallowed`: apply_walk_options had raised)
\*   "raise"   an exception leaves do_walk
\* `commit` tells what became of the handle git_commit_lookup returned:
\* "none" (no lookup, or it failed), "freed" (git_commit_free), "owned" (the
\* Commit object yielded frees it when it is collected), or "held" (nobody
\* frees it)
WalkBody(wo, oid, bad) ==
    IF wo.offset # 0
    THEN [out |-> "offset", w |-> [wo EXCEPT !.offset = DecU64(@)],
          value |-> Qnil, swallowed |-> FALSE, commit |-> "none"]
    ELSE IF wo.oid_only
    THEN [out |-> "yield", w |-> wo, value |-> [kind |-> "oid", oid |-> oid],
          swallowed |-> FALSE, commit |-> "none"]
    ELSE IF Unreadable(bad, "lookup", oid)
    THEN [out |-> "raise", w |-> wo, value |-> Qnil, swallowed |-> FALSE,
          commit |-> "none"]
    ELSE LET r == rb_protect(apply_walk_options(wo, oid, bad))
         IN  IF r.result = Qnil
             THEN [out |-> "nil", w |-> wo, value |-> Qnil, swallowed |-> r.exception,
                   commit |-> "freed"]
             ELSE IF r.exception
             THEN [out |-> "raise", w |-> wo, value |-> Qnil, swallowed |-> FALSE,
                   commit |-> "freed"]
             ELSE [out |-> "yield", w |-> wo, value |-> r.result, swallowed |-> FALSE,
                   commit |-> IF r.result.kind = "commit" THEN "owned" ELSE "held"]

(***************************************************************************)
(* Walker.walk, walker.each and walker.each_oid.                           *)
(***************************************************************************)
WalkInit ==
    /\ wpc = "idle"
    /\ entry = "none"
    /\ opts = NoOpts
    /\ w = [oid_only |-> FALSE, stats_only |-> FALSE, no_merges |-> FALSE,
            offset |-> 0, limit |-> UINT64_MAX]
    /\ walker = git_revwalk_new
    /\ corrupt = [kind |-> "none", commit |-> 0]
    /\ yielded = << >>
    /\ exception = "none"
    /\ wfail = {}
    /\ wexit = "none"
    /\ woutcome = "none"
    /\ walk_created = 0
    /\ walk_freed = 0
    /\ lookups = [freed |-> {}, owned |-> {}, held |-> {}]

\* rb_git_walk, lines 494-509 up to the call of do_walk.  no_merges is not
\* assigned here: it holds whatever the stack held (`stack_no_merges`).
WalkCall ==
    /\ wpc = "idle"
    /\ \E o \in WalkOpts, stack_no_merges \in BOOLEAN, bad \in Corruptions,
          new_ok \in BOOLEAN :
        /\ entry' = "walk"
        /\ opts' = o
        /\ corrupt' = bad
        /\ IF ~new_ok
           THEN /\ woutcome' = "raised"
                /\ wpc' = "done"
                /\ UNCHANGED <<w, walker, exception, walk_created>>
           ELSE LET w0 == [oid_only |-> FALSE, stats_only |-> FALSE,
                           no_merges |-> stack_no_merges,
                           offset |-> 0, limit |-> UINT64_MAX]
                    loaded == load_all_options(w0, git_revwalk_new, o)
                IN  /\ w' = loaded.w
                    /\ walker' = loaded.walk
                    /\ walk_created' = walk_created + 1
                    /\ exception' = IF loaded.raised THEN "error" ELSE "none"
                    /\ wpc' = IF loaded.raised THEN "finish" ELSE "walking"
                    /\ UNCHANGED woutcome
    /\ UNCHANGED <<yielded, wfail, wexit, walk_freed>>
    /\ UNCHANGED <<lookups, pushVars, statsVars, restVars>>

\* rb_git_walk_with_opts, lines 531-543, on a walker that push and hide calls
\* have set up.  no_merges is not assigned here either.
EachCall ==
    /\ wpc = "idle"
    /\ \E o \in EachOpts, oid_only \in BOOLEAN, stack_no_merges \in BOOLEAN,
          bad \in Corruptions, show \in ShowSpecs, hide \in HideSpecs :
        LET set_up == push_commit(push_commit(git_revwalk_new, show, FALSE).walk,
                                  hide, TRUE)
            w0 == [oid_only |-> oid_only, stats_only |-> FALSE,
                   no_merges |-> stack_no_merges, offset |-> 0, limit |-> UINT64_MAX]
        IN  /\ ~push_commit(git_revwalk_new, show, FALSE).raised
            /\ ~set_up.raised
            /\ entry' = IF oid_only THEN "each_oid" ELSE "each"
            /\ opts' = o
            /\ corrupt' = bad
            /\ walker' = set_up.walk
            /\ w' = load_walk_limits(w0, o)
    /\ wpc' = "walking"
    /\ UNCHANGED <<yielded, exception, wfail, wexit, woutcome, walk_created, walk_freed>>
    /\ UNCHANGED <<lookups, pushVars, statsVars, restVars>>

\* do_walk, lines 381-419: one pass of the loop, or its end
DoWalkStep ==
    /\ wpc = "walking"
    /\ LET next == git_revwalk_next(walker)
           body == WalkBody(w, next.oid, corrupt)
       IN  IF next.error # GIT_OK
           THEN \* GIT_ITEROVER: the walk is exhausted
                /\ wpc' = "finish"
                /\ wexit' = "exhausted"
                /\ UNCHANGED <<w, walker, yielded, exception, wfail>>
           ELSE /\ walker' = next.walk
                /\ w' = IF body.out = "yield"
                        THEN [body.w EXCEPT !.limit = DecU64(@)] ELSE body.w
                /\ wfail' = IF body.out = "raise" \/ body.swallowed
                            THEN wfail \cup {Len(yielded)} ELSE wfail
                /\ CASE body.out = "yield" ->
                          /\ yielded' = Append(yielded, body.value)
                          /\ \/ \* the block returns
                                /\ wpc' = IF DecU64(body.w.limit) = 0
                                          THEN "finish" ELSE "walking"
                                /\ wexit' = IF DecU64(body.w.limit) = 0
                                            THEN "limit" ELSE wexit
                                /\ UNCHANGED exception
                             \/ \* the block abandons the iteration
                                /\ wpc' = "finish"
                                /\ wexit' = "break"
                                /\ exception' = "break"
                     [] body.out = "raise" ->
                          /\ wpc' = "finish"
                          /\ wexit' = "error"
                          /\ exception' = "error"
                          /\ UNCHANGED yielded
                     [] OTHER ->
                          UNCHANGED <<wpc, wexit, exception, yielded>>
    /\ UNCHANGED <<entry, opts, corrupt, woutcome, walk_created, walk_freed>>
    /\ lookups' = LET next == git_revwalk_next(walker)
                      body == WalkBody(w, next.oid, corrupt)
                  IN  IF next.error # GIT_OK \/ body.commit = "none" THEN lookups
                      ELSE [lookups EXCEPT ![body.commit] = @ \cup {next.oid}]
    /\ UNCHANGED <<pushVars, statsVars, restVars>>

\* how a call ends once do_walk is left: the pending exit is re-raised
CallOutcome(exc) ==
    CASE exc = "error" -> "raised"
      [] exc = "break" -> "break"
      [] OTHER -> "returned"

\* rb_git_walk re-raising a pending exit before it frees the walker
WalkFinishJumpFirst ==
    /\ wpc = "finish"
    /\ entry = "walk"
    /\ walk_freed' = IF exception = "none" THEN walk_freed + 1 ELSE walk_freed
    /\ woutcome' = CallOutcome(exception)
    /\ wpc' = "done"
    /\ UNCHANGED <<entry, opts, w, walker, corrupt, yielded, exception, wfail,
                   wexit, walk_created>>
    /\ UNCHANGED <<lookups, pushVars, statsVars, restVars>>

\* rb_git_walk, lines 511-516, whose rb_protect calls caught every exit of
\* load_all_options and do_walk: free the walker, then re-raise
WalkFinish ==
    /\ wpc = "finish"
    /\ entry = "walk"
    /\ walk_freed' = walk_freed + 1
    /\ woutcome' = CallOutcome(exception)
    /\ wpc' = "done"
    /\ UNCHANGED <<entry, opts, w, walker, corrupt, yielded, exception, wfail,
                   wexit, walk_created>>
    /\ UNCHANGED <<lookups, pushVars, statsVars, restVars>>

\* rb_git_walk_with_opts, line 545: do_walk returns or its exit propagates
EachFinish ==
    /\ wpc = "finish"
    /\ entry \in {"each", "each_oid"}
    /\ woutcome' = CallOutcome(exception)
    /\ wpc' = "done"
    /\ UNCHANGED <<entry, opts, w, walker, corrupt, yielded, exception, wfail,
                   wexit, walk_created, walk_freed>>
    /\ UNCHANGED <<lookups, pushVars, statsVars, restVars>>

\* C27: every commit handle the walk looked up was freed before the next
\* commit or is owned by the object that was yielded for it; none is left
\* that nobody frees.
C27_WalkCommitsReleasedOrOwned ==
    lookups.held = {}

WalkNext ==
    \/ WalkCall
    \/ EachCall
    \/ DoWalkStep
    \/ WalkFinish
    \/ EachFinish

(***************************************************************************)
(* Properties of the walks.                                                *)
(***************************************************************************)
\* the OID a yielded result stands for
YieldedOid(y) == IF y.kind = "stats" THEN y.stats.oid ELSE y.oid

YieldedOids == [k \in DOMAIN yielded |-> YieldedOid(yielded[k])]

OptValue(o) == CHOOSE n \in o : TRUE

\* seq without its first n elements
Drop(seq, n) == IF n >= Len(seq) THEN << >> ELSE SubSeq(seq, n + 1, Len(seq))

\* the walk ended by itself: no unreadable object, no error, no abandoning
CleanWalk ==
    /\ wpc = "done"
    /\ corrupt.kind = "none"
    /\ wexit \in {"exhausted", "limit"}
    /\ woutcome = "returned"

\* the results do_walk yields for the commits list[k..], when every object
\* is readable and the block never abandons the iteration
RECURSIVE DoWalkYields(_, _, _)
DoWalkYields(list, k, wo) ==
    IF k > Len(list) THEN << >>
    ELSE LET body == WalkBody(wo, list[k], [kind |-> "none", commit |-> 0])
         IN  IF body.out = "yield"
             THEN IF DecU64(body.w.limit) = 0 THEN <<body.value>>
                  ELSE <<body.value>> \o
                       DoWalkYields(list, k + 1, [body.w EXCEPT !.limit = DecU64(@)])
             ELSE DoWalkYields(list, k + 1, body.w)

\* C4: a walk without offset, limit, no_merges and stats_only that runs to
\* exhaustion yields exactly the commits reachable from the shown tips and
\* from no hidden tip, each once.
C4_WalkYieldsShownMinusHidden ==
    (CleanWalk /\ wexit = "exhausted" /\ opts.offset = {} /\ opts.limit = {}
               /\ ~opts.no_merges /\ ~opts.stats_only) =>
        /\ Range(YieldedOids) =
              Reachable(Range(walker.pushed)) \ Reachable(Range(walker.hidden))
        /\ Len(yielded) = Cardinality(Range(YieldedOids))

\* C5: a call given the limit L, L = 0 included, yields at most L results.
C5_LimitCapsResults ==
    opts.limit # {} => Len(yielded) <= OptValue(opts.limit)

\* C6: a walk with offset N yields what the same walk without offset
\* yields, less its first N results (stated for the walks that give
\* no_merges or stats_only and no limit).
C6_OffsetDropsFirstResults ==
    (CleanWalk /\ opts.offset # {} /\ opts.limit = {}
               /\ (opts.no_merges \/ opts.stats_only)) =>
        yielded = Drop(DoWalkYields(RevList(walker), 1,
                                    [w EXCEPT !.offset = 0, !.limit = UINT64_MAX]),
                       OptValue(opts.offset))

\* C7: with the option no_merges, no commit with more than one parent is
\* yielded, whatever the kind of result.
C7_NoMergesYieldsNoMerge ==
    opts.no_merges =>
        \A k \in DOMAIN yielded : git_commit_parentcount(YieldedOids[k]) <= 1

\* C8: no_merges defaults to false: a walk given neither no_merges nor
\* stats_only (and no offset or limit) that runs to exhaustion yields every
\* merge commit the walker returns.
C8_MergesYieldedByDefault ==
    (CleanWalk /\ wexit = "exhausted" /\ ~opts.no_merges /\ ~opts.stats_only
               /\ opts.offset = {} /\ opts.limit = {}) =>
        \A c \in Range(RevList(walker)) :
            git_commit_parentcount(c) > 1 => c \in Range(YieldedOids)

\* C9: once producing the result of a walked commit has failed, nothing more
\* is yielded and the call ends by raising.
C9_FailureRaisesAndStops ==
    wfail # {} =>
        /\ \A n \in wfail : Len(yielded) = n
        /\ wpc = "done" => woutcome = "raised"

\* C10: Walker.walk frees the walker it created exactly once, on every way
\* out, and not before the walk is over.
C10_WalkerFreedExactlyOnce ==
    entry = "walk" =>
        /\ walk_created <= 1
        /\ walk_freed <= walk_created
        /\ wpc \in {"walking", "finish"} => (walk_created = 1 /\ walk_freed = 0)
        /\ wpc = "done" => walk_freed = walk_created

\* Walker.walk is over, after its block abandoned the iteration, and the
\* walker it created has been freed
C10_Witness ==
    /\ entry = "walk"
    /\ wpc = "done"
    /\ wexit = "break"
    /\ woutcome = "break"
    /\ walk_created = 1
    /\ walk_freed = 1

(***************************************************************************)
(* Commit.diff_between_repos: rb_git_commit_diff_between_repos.            *)
(* A repository is the set of the commits its object database holds; it    *)
(* holds every ancestor of a commit it holds.                              *)
(***************************************************************************)
Repos == {{1}, {1, 2}, {1, 3}, {1, 2, 3}, {1, 2, 3, 4}, {1, 2, 3, 4, 5},
          {6, 7}, {1, 2, 6, 7}}

\* the length of a full hexadecimal OID
GIT_OID_HEXSZ == 40

\* the lengths of the strings a caller gives as a commit id
OidLengths == {GIT_OID_HEXSZ - 1, GIT_OID_HEXSZ, GIT_OID_HEXSZ + 1}

\* a string given as a commit id: its length, whether it is all hexadecimal
\* digits, and the OID its first 40 characters spell (0 names no object)
OidStrings ==
    {[len |-> l, hex |-> TRUE, oid |-> c] : l \in OidLengths,
                                            c \in {0} \cup Commits \cup ForeignCommits}
    \cup {[len |-> GIT_OID_HEXSZ, hex |-> FALSE, oid |-> 0]}

\* git_oid_fromstr: fails on a character that is no hexadecimal digit
git_oid_fromstr(str) ==
    IF str.hex THEN [error |-> GIT_OK, oid |-> str.oid]
    ELSE [error |-> GIT_ERROR, oid |-> 0]

\* the length checks without the test for a string that is too long
OidLengthErrorShortOnly(len1, len2) ==
    IF len1 < GIT_OID_HEXSZ \/ len2 < GIT_OID_HEXSZ THEN "too short" ELSE "none"

\* lines 783-786: the length checks, which raise ArgumentError
OidLengthError(len1, len2) ==
    IF len1 < GIT_OID_HEXSZ \/ len2 < GIT_OID_HEXSZ THEN "too short"
    ELSE IF len1 > GIT_OID_HEXSZ \/ len2 > GIT_OID_HEXSZ THEN "too long"
    ELSE "none"

\* git_odb_exists
git_odb_exists(odb, oid) == oid \in odb

\* git_commit_parent_id(commit, 0): the first parent's OID, or NULL (0)
git_commit_parent_id(c) == IF Parents(c) = << >> THEN 0 ELSE Parents(c)[1]

\* git_merge_bases_many on two commits of a repository: the common
\* ancestors that are an ancestor of no other common ancestor
git_merge_bases_many(repo, a, b) ==
    IF a \notin repo \/ b \notin repo THEN {}
    ELSE LET common == Ancestors(a) \cap Ancestors(b)
         IN  {c \in common : \A d \in common : c \in Ancestors(d) => c = d}

DbrInit ==
    /\ dpc = "idle"
    /\ dargs = [repo1 |-> {1}, rb_commit1 |-> [len |-> GIT_OID_HEXSZ, hex |-> TRUE, oid |-> 0],
                repo2 |-> {1}, rb_commit2 |-> [len |-> GIT_OID_HEXSZ, hex |-> TRUE, oid |-> 0]]
    /\ oids = <<0, 0>>
    /\ oid1 = "oids0"
    /\ odb2 = "closed"
    /\ odb_reads = 0
    /\ rb_oids = << >>
    /\ doutcome = "none"

\* lines 775-794: the checks of the arguments, git_oid_fromstr on both
\* strings, git_repository_odb
DbrCall ==
    /\ dpc = "idle"
    /\ \E r1 \in Repos, r2 \in Repos, s1 \in OidStrings, s2 \in OidStrings :
        LET from1 == git_oid_fromstr(s1)
            from2 == git_oid_fromstr(s2)
        IN  /\ dargs' = [repo1 |-> r1, rb_commit1 |-> s1, repo2 |-> r2, rb_commit2 |-> s2]
            /\ IF OidLengthError(s1.len, s2.len) # "none"
               THEN /\ doutcome' = "ArgumentError"
                    /\ dpc' = "done"
                    /\ UNCHANGED <<oids, odb2>>
               ELSE IF from1.error # GIT_OK
               THEN /\ doutcome' = "raised"
                    /\ dpc' = "done"
                    /\ UNCHANGED <<oids, odb2>>
               ELSE IF from2.error # GIT_OK
               THEN /\ doutcome' = "raised"
                    /\ dpc' = "done"
                    /\ oids' = <<from1.oid, 0>>
                    /\ UNCHANGED odb2
               ELSE /\ oids' = <<from1.oid, from2.oid>>
                    /\ odb2' = "open"
                    /\ dpc' = "chain"
                    /\ UNCHANGED doutcome
    /\ UNCHANGED <<oid1, odb_reads, rb_oids>>
    /\ UNCHANGED <<statsVars, walkVars, objVars, parVars, crtVars, ishVars, sofVars>>

\* lines 796-809: one pass of the loop that follows the first parents of
\* commit1 in repo1 until a commit that repo2 holds, or the end of the loop
DbrChain ==
    /\ dpc = "chain"
    /\ IF oid1 # "NULL" /\ ~git_odb_exists(dargs.repo2, oids[1])
       THEN IF oids[1] \notin dargs.repo1
            THEN \* git_commit_lookup fails: lines 799-802
                 /\ odb2' = "freed"
                 /\ odb_reads' = odb_reads + 2
                 /\ doutcome' = "raised"
                 /\ dpc' = "done"
                 /\ UNCHANGED <<oids, oid1>>
            ELSE LET parent_oid == git_commit_parent_id(oids[1])
                 IN  /\ odb_reads' = odb_reads + 2
                     /\ IF parent_oid # 0
                        THEN oids' = <<parent_oid, oids[2]>> /\ UNCHANGED oid1
                        ELSE oid1' = "NULL" /\ UNCHANGED oids
                     /\ UNCHANGED <<odb2, doutcome, dpc>>
       ELSE /\ odb2' = "freed"
            /\ odb_reads' = IF oid1 # "NULL" THEN odb_reads + 1 ELSE odb_reads
            /\ dpc' = "bases"
            /\ UNCHANGED <<oids, oid1, doutcome>>
    /\ UNCHANGED <<dargs, rb_oids>>
    /\ UNCHANGED <<statsVars, walkVars, objVars, parVars, crtVars, ishVars, sofVars>>

\* lines 811-821 without the branch for GIT_ENOTFOUND: the commit found
\* stays the one to hide
DbrBasesKeepFound ==
    /\ dpc = "bases"
    /\ IF oid1 # "NULL"
       THEN LET bases == git_merge_bases_many(dargs.repo2, oids[1], oids[2])
            IN  IF bases = {}
                THEN UNCHANGED <<oids, oid1>>
                ELSE /\ \E b \in bases : oids' = <<b, oids[2]>>
                     /\ UNCHANGED oid1
       ELSE UNCHANGED <<oids, oid1>>
    /\ dpc' = "walk"
    /\ odb_reads' = IF oid1 # "NULL" THEN odb_reads + 1 ELSE odb_reads
    /\ UNCHANGED <<dargs, odb2, rb_oids, doutcome>>
    /\ UNCHANGED <<statsVars, walkVars, objVars, parVars, crtVars, ishVars, sofVars>>

\* lines 811-821: the merge base of the commit found and commit2, in repo2
DbrBases ==
    /\ dpc = "bases"
    /\ IF oid1 # "NULL"
       THEN LET bases == git_merge_bases_many(dargs.repo2, oids[1], oids[2])
            IN  IF bases = {}
                THEN \* GIT_ENOTFOUND
                     oid1' = "NULL" /\ UNCHANGED oids
                ELSE \* bases.ids[0]: the order of the bases is libgit2's
                     /\ \E b \in bases : oids' = <<b, oids[2]>>
                     /\ UNCHANGED oid1
       ELSE UNCHANGED <<oids, oid1>>
    /\ dpc' = "walk"
    /\ odb_reads' = IF oid1 # "NULL" THEN odb_reads + 1 ELSE odb_reads
    /\ UNCHANGED <<dargs, odb2, rb_oids, doutcome>>
    /\ UNCHANGED <<statsVars, walkVars, objVars, parVars, crtVars, ishVars, sofVars>>

\* the walker is given commit2 to show and nothing to hide
DbrPushOnly(repo, walk) ==
    IF oids[2] \in repo
    THEN [walk |-> [walk EXCEPT !.pushed = Append(@, oids[2])], error |-> GIT_OK]
    ELSE [walk |-> walk, error |-> GIT_ENOTFOUND]

\* lines 827-829: the walker is given commit2 to show and, unless oid1 is
\* NULL, *oid1 to hide
DbrPushHide(repo, walk) ==
    LET pushed == IF oids[2] \in repo
                  THEN [walk |-> [walk EXCEPT !.pushed = Append(@, oids[2])],
                        error |-> GIT_OK]
                  ELSE [walk |-> walk, error |-> GIT_ENOTFOUND]
    IN  IF pushed.error = GIT_OK /\ oid1 # "NULL"
        THEN IF oids[1] \in repo
             THEN [walk |-> [pushed.walk EXCEPT !.hidden = Append(@, oids[1])],
                   error |-> GIT_OK]
             ELSE [walk |-> pushed.walk, error |-> GIT_ENOTFOUND]
        ELSE pushed

\* lines 823-843: walk repo2 from commit2, latest first, and collect the OIDs
DbrWalk ==
    /\ dpc = "walk"
    /\ LET set_up == DbrPushHide(dargs.repo2, git_revwalk_new)
       IN  IF set_up.error # GIT_OK
           THEN /\ doutcome' = "raised"
                /\ UNCHANGED rb_oids
           ELSE /\ rb_oids' = RevList(set_up.walk)
                /\ doutcome' = "returned"
    /\ dpc' = "done"
    /\ odb_reads' = odb_reads + 1
    /\ UNCHANGED <<dargs, oids, oid1, odb2>>
    /\ UNCHANGED <<statsVars, walkVars, objVars, parVars, crtVars, ishVars, sofVars>>

DbrNext ==
    \/ DbrCall
    \/ DbrChain
    \/ DbrBases
    \/ DbrWalk

(***************************************************************************)
(* Properties of Commit.diff_between_repos.                                *)
(***************************************************************************)
\* both strings are full OIDs of hexadecimal digits
FullOids ==
    /\ dargs.rb_commit1.len = GIT_OID_HEXSZ /\ dargs.rb_commit1.hex
    /\ dargs.rb_commit2.len = GIT_OID_HEXSZ /\ dargs.rb_commit2.hex

\* C11: when repo1 and repo2 are the same repository and commit1 is an
\* ancestor of commit2, the call returns exactly the commits reachable from
\* commit2 and not from commit1, latest committer time first.
C11_SameRepoAncestorRange ==
    (/\ dpc = "done"
     /\ FullOids
     /\ dargs.repo1 = dargs.repo2
     /\ dargs.rb_commit2.oid \in dargs.repo2
     /\ dargs.rb_commit1.oid \in Ancestors(dargs.rb_commit2.oid)) =>
        /\ doutcome = "returned"
        /\ Range(rb_oids) =
              Ancestors(dargs.rb_commit2.oid) \ Ancestors(dargs.rb_commit1.oid)
        /\ \A j, k \in DOMAIN rb_oids : j < k => rb_oids[j] > rb_oids[k]

\* in one repository, from commit 2 to its descendant 5: the merge 4 and its
\* second parent 3 are returned with 5
C11_Witness ==
    /\ dpc = "done"
    /\ dargs.repo1 = dargs.repo2
    /\ FullOids
    /\ dargs.rb_commit1.oid = 2
    /\ dargs.rb_commit2.oid = 5
    /\ rb_oids = <<5, 4, 3>>

\* C12: every OID returned is reachable from commit2 in repo2 and none is
\* reachable from commit1 in repo1, through whichever parent.
C12_ResultsOnlyFromBNotFromA ==
    (dpc = "done" /\ doutcome = "returned") =>
        \A k \in DOMAIN rb_oids :
            /\ rb_oids[k] \in dargs.repo2
            /\ rb_oids[k] \in Ancestors(dargs.rb_commit2.oid)
            /\ dargs.rb_commit1.oid \in dargs.repo1 =>
                   rb_oids[k] \notin Ancestors(dargs.rb_commit1.oid)

\* the commits on the first-parent chain of commit c, c included
RECURSIVE FirstParentChain(_)
FirstParentChain(c) ==
    IF Parents(c) = << >> THEN {c} ELSE {c} \cup FirstParentChain(Parents(c)[1])

\* the commits of the chain of commit1 that repo2 holds: the latest is the
\* one the loop finds
ChainInRepo2 == FirstParentChain(dargs.rb_commit1.oid) \cap dargs.repo2

\* C25: when repo2 holds no commit of the first-parent chain of commit1, or
\* the commit of the chain it holds has no common ancestor with commit2,
\* nothing is hidden and the call returns every commit reachable from
\* commit2 in repo2, latest first.
C25_NoCutoffReturnsAll ==
    (/\ dpc = "done"
     /\ FullOids
     /\ dargs.rb_commit1.oid \in dargs.repo1
     /\ dargs.rb_commit2.oid \in dargs.repo2
     /\ \/ ChainInRepo2 = {}
        \/ \A c \in ChainInRepo2 :
              (\A d \in ChainInRepo2 : d <= c) =>
                  Ancestors(c) \cap Ancestors(dargs.rb_commit2.oid) = {}) =>
        /\ doutcome = "returned"
        /\ oid1 = "NULL"
        /\ Range(rb_oids) = Ancestors(dargs.rb_commit2.oid)
        /\ \A j, k \in DOMAIN rb_oids : j < k => rb_oids[j] > rb_oids[k]

\* commit 7 of a repository that holds only the second history, against
\* commit 3 of one that holds only the first: the chain 7, 6 is followed to
\* its end and the whole history of 3 is returned
C25_Witness ==
    /\ dpc = "done"
    /\ FullOids
    /\ dargs.repo1 = {6, 7}
    /\ dargs.rb_commit1.oid = 7
    /\ dargs.repo2 = {1, 2, 3}
    /\ dargs.rb_commit2.oid = 3
    /\ rb_oids = <<3, 1>>

\* C13: a commit id that is not exactly 40 characters long makes the call
\* raise ArgumentError, before any object database is opened or read.
C13_BadLengthRaisesBeforeOdb ==
    (/\ dpc # "idle"
     /\ \/ dargs.rb_commit1.len # GIT_OID_HEXSZ
        \/ dargs.rb_commit2.len # GIT_OID_HEXSZ) =>
        /\ dpc = "done"
        /\ doutcome = "ArgumentError"
        /\ odb2 = "closed"
        /\ odb_reads = 0

\* a call whose second commit id is one character too long has raised
C13_Witness ==
    /\ dpc = "done"
    /\ dargs.rb_commit1.len = GIT_OID_HEXSZ
    /\ dargs.rb_commit2.len = GIT_OID_HEXSZ + 1
    /\ dargs.rb_commit2.oid \in dargs.repo2
    /\ doutcome = "ArgumentError"
    /\ odb2 = "closed"

(***************************************************************************)
(* The object database behind Object.lookup and Object.exists?: the        *)
(* commits 1..5, their trees 11..15, the blobs 31 and 32 and the annotated *)
(* tags 21 (of commit 5), 22 (of tag 21), 23 (of tree 11), 24 (of tag 22),*)
(* 41 (of blob 31) and 42 (of an object the database does not hold).       *)
(* The OID of object n is written with the two hexadecimal digits of n     *)
(* followed by 38 zeros.                                                   *)
(***************************************************************************)
Trees == {11, 12, 13, 14, 15}
Blobs == {31, 32}
Tags == {21, 22, 23, 24, 41, 42}
Objects == Commits \cup Trees \cup Blobs \cup Tags

git_object_type(o) ==
    CASE o \in Commits -> "GIT_OBJ_COMMIT"
      [] o \in Trees -> "GIT_OBJ_TREE"
      [] o \in Blobs -> "GIT_OBJ_BLOB"
      [] o \in Tags -> "GIT_OBJ_TAG"

git_tag_target_id(tag) ==
    CASE tag = 21 -> 5
      [] tag = 22 -> 21
      [] tag = 23 -> 11
      [] tag = 24 -> 22
      [] tag = 41 -> 31
      [] tag = 42 -> 9

\* the digit at position p (from 1) of the OID of object o
OidDigit(o, p) == IF p = 1 THEN o \div 10 ELSE IF p = 2 THEN o % 10 ELSE 0

\* A string given as an OID: its first digits (`head`), its length, and
\* whether all its characters are hexadecimal digits; the characters after
\* `head` are zeros.
HexDigits == 0..4
HexHeads == {<<a>> : a \in HexDigits} \cup {<<a, b>> : a, b \in HexDigits}
HexStrings ==
    {[head |-> h, len |-> l, hex |-> x] :
        h \in HexHeads,
        l \in {1, 2, GIT_OID_HEXSZ - 1, GIT_OID_HEXSZ, GIT_OID_HEXSZ + 1, GIT_OID_HEXSZ + 2},
        x \in BOOLEAN} \ {s \in [head : HexHeads, len : {1}, hex : BOOLEAN] : Len(s.head) > 1}

\* the digit at position p of a string
StrDigit(s, p) == IF p <= Len(s.head) THEN s.head[p] ELSE 0

GIT_EAMBIGUOUS == -5

\* git_oid_fromstrn: the first `length` characters as a (partial) OID; fails
\* on a character that is no hexadecimal digit
git_oid_fromstrn(s, length) ==
    IF s.hex /\ length > 0
    THEN [error |-> GIT_OK, oid |-> [p \in 1..Min(length, GIT_OID_HEXSZ) |-> StrDigit(s, p)]]
    ELSE [error |-> GIT_ERROR, oid |-> << >>]

\* the objects whose OID starts with the digits of oid
PrefixMatches(oid) ==
    {o \in Objects : \A p \in DOMAIN oid : OidDigit(o, p) = oid[p]}

\* git_object_lookup_prefix: the one object whose OID starts with the first
\* len digits of oid, of the type asked for
git_object_lookup_prefix(oid, len, type) ==
    LET found == PrefixMatches(SubSeq(oid, 1, len))
    IN  IF found = {} THEN [error |-> GIT_ENOTFOUND, object |-> 0]
        ELSE IF Cardinality(found) > 1 THEN [error |-> GIT_EAMBIGUOUS, object |-> 0]
        ELSE LET o == CHOOSE x \in found : TRUE
             IN  IF type # "GIT_OBJ_ANY" /\ git_object_type(o) # type
                 THEN [error |-> GIT_ENOTFOUND, object |-> 0]
                 ELSE [error |-> GIT_OK, object |-> o]

\* git_object_lookup: the object with the full OID, of the type asked for
git_object_lookup(oid, type) == git_object_lookup_prefix(oid, GIT_OID_HEXSZ, type)

(***************************************************************************)
(* Object.lookup and Object.exists? (rugged_object.c).                     *)
(***************************************************************************)
Klasses == {"Object", "Commit", "TagAnnotation", "Blob", "Tree"}

\* class2otype, lines 190-205
class2otype(klass) ==
    CASE klass = "Commit" -> "GIT_OBJ_COMMIT"
      [] klass = "TagAnnotation" -> "GIT_OBJ_TAG"
      [] klass = "Blob" -> "GIT_OBJ_BLOB"
      [] klass = "Tree" -> "GIT_OBJ_TREE"
      [] OTHER -> "GIT_OBJ_BAD"

\* rugged_object_new, lines 157-186: the Ruby object that wraps a git object
rugged_object_new(object) ==
    [klass |-> CASE git_object_type(object) = "GIT_OBJ_COMMIT" -> "Commit"
                 [] git_object_type(object) = "GIT_OBJ_TAG" -> "TagAnnotation"
                 [] git_object_type(object) = "GIT_OBJ_TREE" -> "Tree"
                 [] git_object_type(object) = "GIT_OBJ_BLOB" -> "Blob",
     object |-> object]

\* the outcome of a call: what it raised ("none" when it returned), the
\* libgit2 error it raised for, the value it returned, and the number of
\* queries it made to the object database
CallResult(raised, err, value, queries) ==
    [raised |-> raised, error |-> err, value |-> value, queries |-> queries]

\* rb_git_object_lookup without the check of line 237
rb_git_object_lookup_unchecked(klass, rb_hex) ==
    LET type == IF class2otype(klass) = "GIT_OBJ_BAD" THEN "GIT_OBJ_ANY"
                ELSE class2otype(klass)
        oid_length == rb_hex.len
        parsed == git_oid_fromstrn(rb_hex, oid_length)
        found == IF oid_length < GIT_OID_HEXSZ
                 THEN git_object_lookup_prefix(parsed.oid, oid_length, type)
                 ELSE git_object_lookup(parsed.oid, type)
    IN  IF rugged_exception_check(parsed.error)
        THEN CallResult("RuggedError", parsed.error, Qnil, 0)
        ELSE IF rugged_exception_check(found.error)
        THEN CallResult("RuggedError", found.error, Qnil, 1)
        ELSE CallResult("none", GIT_OK, rugged_object_new(found.object), 1)

\* rb_git_object_lookup, lines 217-253
rb_git_object_lookup(klass, rb_hex) ==
    LET type == IF class2otype(klass) = "GIT_OBJ_BAD" THEN "GIT_OBJ_ANY"
                ELSE class2otype(klass)
        oid_length == rb_hex.len
        parsed == git_oid_fromstrn(rb_hex, oid_length)
        found == IF oid_length < GIT_OID_HEXSZ
                 THEN git_object_lookup_prefix(parsed.oid, oid_length, type)
                 ELSE git_object_lookup(parsed.oid, type)
    IN  IF oid_length > GIT_OID_HEXSZ
        THEN CallResult("TypeError", GIT_OK, Qnil, 0)
        ELSE IF rugged_exception_check(parsed.error)
        THEN CallResult("RuggedError", parsed.error, Qnil, 0)
        ELSE IF rugged_exception_check(found.error)
        THEN CallResult("RuggedError", found.error, Qnil, 1)
        ELSE CallResult("none", GIT_OK, rugged_object_new(found.object), 1)

Qtrue == [bool |-> TRUE]
Qfalse == [bool |-> FALSE]

\* rb_git_object_exists looking the object up whatever its type
rb_git_object_exists_any_type(klass, rb_hex) ==
    LET oid_length == rb_hex.len
        parsed == git_oid_fromstrn(rb_hex, oid_length)
        found == git_object_lookup_prefix(parsed.oid, oid_length, "GIT_OBJ_ANY")
    IN  IF oid_length > GIT_OID_HEXSZ THEN CallResult("none", GIT_OK, Qfalse, 0)
        ELSE IF parsed.error # GIT_OK THEN CallResult("none", GIT_OK, Qfalse, 0)
        ELSE IF found.error # GIT_OK THEN CallResult("none", GIT_OK, Qfalse, 1)
        ELSE CallResult("none", GIT_OK, Qtrue, 1)

\* rb_git_object_exists, lines 265-298
rb_git_object_exists(klass, rb_hex) ==
    LET type == IF class2otype(klass) = "GIT_OBJ_BAD" THEN "GIT_OBJ_ANY"
                ELSE class2otype(klass)
        oid_length == rb_hex.len
        parsed == git_oid_fromstrn(rb_hex, oid_length)
        found == git_object_lookup_prefix(parsed.oid, oid_length, type)
    IN  IF oid_length > GIT_OID_HEXSZ THEN CallResult("none", GIT_OK, Qfalse, 0)
        ELSE IF parsed.error # GIT_OK THEN CallResult("none", GIT_OK, Qfalse, 0)
        ELSE IF found.error # GIT_OK THEN CallResult("none", GIT_OK, Qfalse, 1)
        ELSE CallResult("none", GIT_OK, Qtrue, 1)

ObjInit ==
    /\ ocall = [method |-> "none", klass |-> "Object",
                rb_hex |-> [head |-> <<0>>, len |-> 1, hex |-> TRUE]]
    /\ oresult = CallResult("none", GIT_OK, Qnil, 0)

\* a call of Object.lookup (or Object.new) on a class and a string
ObjectLookup ==
    /\ ocall.method = "none"
    /\ \E klass \in Klasses, rb_hex \in HexStrings :
        /\ ocall' = [method |-> "lookup", klass |-> klass, rb_hex |-> rb_hex]
        /\ oresult' = rb_git_object_lookup(klass, rb_hex)
    /\ UNCHANGED <<statsVars, walkVars, dbrVars, parVars, crtVars, ishVars, sofVars>>

\* a call of Object.exists? on a class and a string
ObjectExists ==
    /\ ocall.method = "none"
    /\ \E klass \in Klasses, rb_hex \in HexStrings :
        /\ ocall' = [method |-> "exists?", klass |-> klass, rb_hex |-> rb_hex]
        /\ oresult' = rb_git_object_exists(klass, rb_hex)
    /\ UNCHANGED <<statsVars, walkVars, dbrVars, parVars, crtVars, ishVars, sofVars>>

ObjNext ==
    \/ ObjectLookup
    \/ ObjectExists

(***************************************************************************)
(* Properties of Object.lookup and Object.exists?.                         *)
(***************************************************************************)
\* the objects whose OID starts with the string of the call
CallMatches ==
    {o \in Objects :
        \A p \in 1..ocall.rb_hex.len : OidDigit(o, p) = StrDigit(ocall.rb_hex, p)}

\* C14: Object.lookup with a hexadecimal prefix that matches no object
\* raises for GIT_ENOTFOUND, with a prefix that matches exactly two objects
\* it raises for GIT_EAMBIGUOUS, and with a string of 41 characters or more
\* it raises the too-long error without a query to the object database.
C14_LookupFailures ==
    ocall.method = "lookup" =>
        /\ (ocall.rb_hex.hex /\ ocall.rb_hex.len <= GIT_OID_HEXSZ /\ CallMatches = {}) =>
              (oresult.raised = "RuggedError" /\ oresult.error = GIT_ENOTFOUND)
        /\ (ocall.rb_hex.hex /\ ocall.rb_hex.len <= GIT_OID_HEXSZ
                             /\ Cardinality(CallMatches) = 2) =>
              (oresult.raised = "RuggedError" /\ oresult.error = GIT_EAMBIGUOUS)
        /\ ocall.rb_hex.len > GIT_OID_HEXSZ =>
              (oresult.raised = "TypeError" /\ oresult.queries = 0)

\* Object.lookup on the one-digit prefix 3, which the two blobs share
C14_Witness ==
    /\ ocall.method = "lookup"
    /\ ocall.rb_hex = [head |-> <<3>>, len |-> 1, hex |-> TRUE]
    /\ CallMatches = {31, 32}
    /\ oresult.error = GIT_EAMBIGUOUS

\* C15: Object.exists? never raises, and returns true exactly when
\* Object.lookup with the same class and string returns an object.
C15_ExistsIffLookupReturns ==
    ocall.method = "exists?" =>
        /\ oresult.raised = "none"
        /\ oresult.value \in {Qtrue, Qfalse}
        /\ oresult.value = Qtrue <=>
              rb_git_object_lookup(ocall.klass, ocall.rb_hex).raised = "none"

\* Object.exists? on a class and the unique prefix of an object of another
\* type: Blob.exists?(repo, "01"), where 01... is commit 1
C15_Witness ==
    /\ ocall.method = "exists?"
    /\ ocall.klass = "Blob"
    /\ ocall.rb_hex = [head |-> <<0, 1>>, len |-> 2, hex |-> TRUE]
    /\ oresult.value = Qfalse

(***************************************************************************)
(* commit.parents, commit.parent and commit.parent_ids (rugged_commit.c).  *)
(***************************************************************************)
\* rugged_create_oid: the 40 hexadecimal digits of an OID, as a string
rugged_create_oid(oid) ==
    [head |-> <<OidDigit(oid, 1), OidDigit(oid, 2)>>, len |-> GIT_OID_HEXSZ, hex |-> TRUE]

\* git_commit_parent(commit, n), n from 0: fails when the object database
\* cannot read the parent
git_commit_parent(commit, n, unreadable) ==
    IF Parents(commit)[n + 1] \in unreadable
    THEN [error |-> GIT_ENOTFOUND, parent |-> 0]
    ELSE [error |-> GIT_OK, parent |-> Parents(commit)[n + 1]]

\* the loop of rb_git_commit_parents_GET from index n on, lines 203-207
RECURSIVE ParentsFrom(_, _, _)
ParentsFrom(commit, n, unreadable) ==
    IF n >= git_commit_parentcount(commit) THEN [raised |-> FALSE, ary |-> << >>]
    ELSE LET got == git_commit_parent(commit, n, unreadable)
             rest == ParentsFrom(commit, n + 1, unreadable)
         IN  IF rugged_exception_check(got.error) THEN [raised |-> TRUE, ary |-> << >>]
             ELSE IF rest.raised THEN rest
             ELSE [raised |-> FALSE, ary |-> <<rugged_object_new(got.parent)>> \o rest.ary]

\* rb_git_commit_parents_GET, lines 189-210
rb_git_commit_parents_GET(commit, unreadable) ==
    LET r == ParentsFrom(commit, 0, unreadable)
    IN  IF r.raised THEN CallResult("RuggedError", GIT_ENOTFOUND, Qnil, 0)
        ELSE CallResult("none", GIT_OK, [ary |-> r.ary], 0)

\* rb_git_commit_parent_GET taking the last parent instead of the first
rb_git_commit_parent_GET_last(commit, unreadable) ==
    IF git_commit_parentcount(commit) > 0
    THEN LET got == git_commit_parent(commit, git_commit_parentcount(commit) - 1,
                                      unreadable)
         IN  IF rugged_exception_check(got.error)
             THEN CallResult("RuggedError", got.error, Qnil, 0)
             ELSE CallResult("none", GIT_OK, rugged_object_new(got.parent), 0)
    ELSE CallResult("none", GIT_OK, Qnil, 0)

\* rb_git_commit_parent_GET, lines 224-241
rb_git_commit_parent_GET(commit, unreadable) ==
    IF git_commit_parentcount(commit) > 0
    THEN LET got == git_commit_parent(commit, 0, unreadable)
         IN  IF rugged_exception_check(got.error)
             THEN CallResult("RuggedError", got.error, Qnil, 0)
             ELSE CallResult("none", GIT_OK, rugged_object_new(got.parent), 0)
    ELSE CallResult("none", GIT_OK, Qnil, 0)

\* rb_git_commit_parent_ids_GET, lines 254-274: the parent ids are read from
\* the commit itself
rb_git_commit_parent_ids_GET(commit) ==
    CallResult("none", GIT_OK,
               [ary |-> [n \in 1..git_commit_parentcount(commit) |->
                            rugged_create_oid(Parents(commit)[n])]], 0)

\* a method that has not been called
Uncalled == CallResult("uncalled", GIT_OK, Qnil, 0)

ParInit ==
    /\ cself = [commit |-> 0, unreadable |-> {}]
    /\ parents_ret = Uncalled
    /\ parent_ret = Uncalled
    /\ parent_ids_ret = Uncalled

\* the caller holds a Commit object of a repository, some commits of which
\* the object database may fail to read
ParSelf ==
    /\ cself.commit = 0
    /\ \E c \in Commits :
        \E bad \in {{}} \cup {{p} : p \in Commits \ {c}} :
            cself' = [commit |-> c, unreadable |-> bad]
    /\ UNCHANGED <<parents_ret, parent_ret, parent_ids_ret>>
    /\ UNCHANGED <<statsVars, walkVars, dbrVars, objVars, crtVars, ishVars, sofVars>>

CommitParents ==
    /\ cself.commit # 0
    /\ parents_ret = Uncalled
    /\ parents_ret' = rb_git_commit_parents_GET(cself.commit, cself.unreadable)
    /\ UNCHANGED <<cself, parent_ret, parent_ids_ret>>
    /\ UNCHANGED <<statsVars, walkVars, dbrVars, objVars, crtVars, ishVars, sofVars>>

CommitParent ==
    /\ cself.commit # 0
    /\ parent_ret = Uncalled
    /\ parent_ret' = rb_git_commit_parent_GET(cself.commit, cself.unreadable)
    /\ UNCHANGED <<cself, parents_ret, parent_ids_ret>>
    /\ UNCHANGED <<statsVars, walkVars, dbrVars, objVars, crtVars, ishVars, sofVars>>

CommitParentIds ==
    /\ cself.commit # 0
    /\ parent_ids_ret = Uncalled
    /\ parent_ids_ret' = rb_git_commit_parent_ids_GET(cself.commit)
    /\ UNCHANGED <<cself, parents_ret, parent_ret>>
    /\ UNCHANGED <<statsVars, walkVars, dbrVars, objVars, crtVars, ishVars, sofVars>>

ParNext ==
    \/ ParSelf
    \/ CommitParents
    \/ CommitParent
    \/ CommitParentIds

(***************************************************************************)
(* Properties of the parent accessors.                                     *)
(***************************************************************************)
\* parent_ids and parents both returned, with as many elements, the k-th id
\* being the OID of the k-th parent
ParentIdsMatchParents ==
    (parents_ret.raised = "none" /\ parent_ids_ret.raised = "none") =>
        /\ Len(parent_ids_ret.value.ary) = Len(parents_ret.value.ary)
        /\ \A k \in DOMAIN parents_ret.value.ary :
              parent_ids_ret.value.ary[k] =
                  rugged_create_oid(git_commit_id(parents_ret.value.ary[k].object))

\* parent and parents both returned for a commit with parents: the same
\* first parent
ParentIsFirstOfParents ==
    (/\ parents_ret.raised = "none"
     /\ parent_ret.raised = "none"
     /\ parents_ret.value.ary # << >>) => parent_ret.value = parents_ret.value.ary[1]

\* C16 as stated: parent_ids has as many elements as parents, parent is
\* parents[0] when the commit has parents, and else parent fails with
\* NotFound.
C16_ParentFailsWithoutParents ==
    /\ ParentIdsMatchParents
    /\ ParentIsFirstOfParents
    /\ (parent_ret # Uncalled /\ Parents(cself.commit) = << >>) =>
          (parent_ret.raised = "RuggedError" /\ parent_ret.error = GIT_ENOTFOUND)

\* C16 amended: parent_ids has as many elements as parents, parent is
\* parents[0] when the commit has parents, and else parent returns nil.
C16_ParentNilWithoutParents ==
    /\ ParentIdsMatchParents
    /\ ParentIsFirstOfParents
    /\ (parent_ret # Uncalled /\ Parents(cself.commit) = << >>) =>
          (parent_ret.raised = "none" /\ parent_ret.value = Qnil)

\* the three accessors were called on the merge commit 4 and returned
C16_Witness ==
    /\ cself.commit = 4
    /\ parents_ret.raised = "none"
    /\ Len(parents_ret.value.ary) = 2
    /\ parent_ids_ret.raised = "none"
    /\ parent_ret.raised = "none"
    /\ parent_ret.value = rugged_object_new(2)

(***************************************************************************)
(* Commit.create: rb_git_commit_create, with rugged_object_get for the     *)
(* tree (rugged_object.c).                                                 *)
(***************************************************************************)
\* longest :parents array given to Commit.create
MaxParents == 2

\* the 40 digits of the OID of object o (all zeros names no object)
OidOf(o) == [p \in 1..GIT_OID_HEXSZ |-> OidDigit(o, p)]

\* git_revparse_single: the object a revision expression names
git_revparse_single(rev) ==
    IF rev.object \in Objects THEN [error |-> GIT_OK, object |-> rev.object]
    ELSE [error |-> GIT_ENOTFOUND, object |-> 0]

\* git_commit_lookup: the commit with an OID
git_commit_lookup(oid) ==
    IF oid \in Commits THEN [error |-> GIT_OK, commit |-> oid]
    ELSE [error |-> GIT_ENOTFOUND, commit |-> 0]

\* A Ruby value given where an object is expected: nil, a string of 40
\* hexadecimal digits ("oid"), another string ("rev", a revision expression),
\* a Rugged::Object ("handle"), or something else ("other").  `object` is
\* the object the value names (0: none).
ObjectValue(kind, object) == [kind |-> kind, object |-> object]

\* rugged_object_get, lines 114-150: what it raises, the object it returns,
\* and whether it holds a reference on an object it never hands over
rugged_object_get(object_value, type) ==
    LET checked(object) ==
            IF type # "GIT_OBJ_ANY" /\ git_object_type(object) # type
            THEN [raised |-> "ArgumentError", object |-> 0, leaked |-> TRUE]
            ELSE [raised |-> "none", object |-> object, leaked |-> FALSE]
    IN  CASE object_value.kind = "handle" -> checked(object_value.object)
          [] object_value.kind = "oid" ->
                LET found == git_object_lookup(OidOf(object_value.object), type)
                IN  IF rugged_exception_check(found.error)
                    THEN [raised |-> "RuggedError", object |-> 0, leaked |-> FALSE]
                    ELSE [raised |-> "none", object |-> found.object, leaked |-> FALSE]
          [] object_value.kind = "rev" ->
                LET parsed == git_revparse_single(object_value)
                IN  IF rugged_exception_check(parsed.error)
                    THEN [raised |-> "RuggedError", object |-> 0, leaked |-> FALSE]
                    ELSE checked(parsed.object)
          [] OTHER -> [raised |-> "TypeError", object |-> 0, leaked |-> FALSE]

\* the values given as :tree
TreeValues ==
    {ObjectValue("nil", 0), ObjectValue("other", 0),
     ObjectValue("oid", 11), ObjectValue("oid", 1), ObjectValue("oid", 0),
     ObjectValue("rev", 12), ObjectValue("rev", 2), ObjectValue("rev", 0),
     ObjectValue("handle", 13), ObjectValue("handle", 3)}

\* the values given as an element of :parents: nil, a string that is the OID
\* of commit 2 or 3, of a tree, or of nothing, a string that is no OID
\* ("rev"), a Rugged::Commit, or something else
ParentValues ==
    {ObjectValue("nil", 0), ObjectValue("other", 0),
     ObjectValue("oid", 2), ObjectValue("oid", 3), ObjectValue("oid", 11),
     ObjectValue("oid", 0), ObjectValue("rev", 2), ObjectValue("handle", 2)}

\* the values given as :parents: no array, or an array of parent values
ParentArrays ==
    {[array |-> FALSE, ary |-> << >>]} \cup
    {[array |-> TRUE, ary |-> a] :
        a \in UNION {[1..n -> ParentValues] : n \in 0..MaxParents}}

\* the hash given as rb_data.  message and update_ref: "string", "nil" or
\* "other"; committer and author: "hash", "nil" (the configured identity) or
\* "invalid" (a value rugged_signature_get raises for)
CreateData ==
    [update_ref : {"nil", "string", "other"},
     message : {"string", "nil"},
     committer : {"hash", "invalid"},
     author : {"hash", "nil", "invalid"},
     parents : ParentArrays,
     tree : TreeValues]

\* something the call acquired and has to release
Resource(res, n) == [res |-> res, n |-> n]

CrtInit ==
    /\ kpc = "idle"
    /\ rb_data = [update_ref |-> "nil", message |-> "nil", committer |-> "hash",
                  author |-> "hash", parents |-> [array |-> FALSE, ary |-> << >>],
                  tree |-> ObjectValue("nil", 0)]
    /\ acquired = << >>
    /\ released = << >>
    /\ parents = << >>
    /\ free_list = << >>
    /\ ki = 0
    /\ kerror = GIT_OK
    /\ rb_err_obj = Qnil
    /\ koutcome = "none"

\* lines 415-423: update_ref and message
CrtCall ==
    /\ kpc = "idle"
    /\ \E data \in CreateData :
        /\ rb_data' = data
        /\ IF data.update_ref = "other" \/ data.message # "string"
           THEN kpc' = "done" /\ koutcome' = "TypeError"
           ELSE kpc' = "signatures" /\ UNCHANGED koutcome
    /\ UNCHANGED <<acquired, released, parents, free_list, ki, kerror, rb_err_obj>>
    /\ UNCHANGED <<statsVars, walkVars, dbrVars, objVars, parVars, ishVars, sofVars>>

\* lines 425-431: rugged_signature_get for the committer, then the author;
\* it raises for a value it cannot make a signature of
CrtSignatures ==
    /\ kpc = "signatures"
    /\ IF rb_data.committer = "invalid"
       THEN /\ kpc' = "done"
            /\ koutcome' = "raised"
            /\ UNCHANGED acquired
       ELSE IF rb_data.author = "invalid"
       THEN /\ acquired' = Append(acquired, Resource("committer", 0))
            /\ kpc' = "done"
            /\ koutcome' = "raised"
       ELSE /\ acquired' = acquired \o <<Resource("committer", 0), Resource("author", 0)>>
            /\ kpc' = "parents"
            /\ UNCHANGED koutcome
    /\ UNCHANGED <<rb_data, released, parents, free_list, ki, kerror, rb_err_obj>>
    /\ UNCHANGED <<statsVars, walkVars, dbrVars, objVars, parVars, ishVars, sofVars>>

\* lines 433-434: Check_Type(rb_parents, T_ARRAY)
CrtParentsType ==
    /\ kpc = "parents"
    /\ IF rb_data.parents.array
       THEN kpc' = "tree" /\ UNCHANGED koutcome
       ELSE kpc' = "done" /\ koutcome' = "TypeError"
    /\ UNCHANGED <<rb_data, acquired, released, parents, free_list, ki, kerror, rb_err_obj>>
    /\ UNCHANGED <<statsVars, walkVars, dbrVars, objVars, parVars, ishVars, sofVars>>

\* lines 436-441: the tree, by rugged_object_get, which raises by itself
CrtTree ==
    /\ kpc = "tree"
    /\ LET got == rugged_object_get(rb_data.tree, "GIT_OBJ_TREE")
       IN  IF got.raised # "none"
           THEN /\ kpc' = "done"
                /\ koutcome' = got.raised
                /\ acquired' = IF got.leaked THEN Append(acquired, Resource("object", 0))
                               ELSE acquired
           ELSE /\ kpc' = "loop"
                /\ acquired' = Append(acquired, Resource("tree", 0))
                /\ UNCHANGED koutcome
    /\ UNCHANGED <<rb_data, released, parents, free_list, ki, kerror, rb_err_obj>>
    /\ UNCHANGED <<statsVars, walkVars, dbrVars, objVars, parVars, ishVars, sofVars>>

\* lines 443-473: one pass of the loop over rb_parents
CrtParent ==
    /\ kpc = "loop"
    /\ ki < Len(rb_data.parents.ary)
    /\ LET p == rb_data.parents.ary[ki + 1]
           from == git_oid_fromstr([hex |-> p.kind = "oid", oid |-> p.object])
           looked == git_commit_lookup(from.oid)
       IN  IF p.kind = "nil"
           THEN \* continue
                /\ ki' = ki + 1
                /\ UNCHANGED <<acquired, parents, free_list, kerror, rb_err_obj, kpc>>
           ELSE IF p.kind \in {"oid", "rev"}
           THEN IF from.error < GIT_OK
                THEN /\ kerror' = from.error
                     /\ kpc' = "cleanup"
                     /\ UNCHANGED <<acquired, parents, free_list, ki, rb_err_obj>>
                ELSE IF looked.error < GIT_OK
                THEN /\ kerror' = looked.error
                     /\ kpc' = "cleanup"
                     /\ UNCHANGED <<acquired, parents, free_list, ki, rb_err_obj>>
                ELSE /\ acquired' = Append(acquired, Resource("parent", Len(parents)))
                     /\ parents' = Append(parents, looked.commit)
                     /\ free_list' = Append(free_list, Resource("parent", Len(parents)))
                     /\ ki' = ki + 1
                     /\ UNCHANGED <<kerror, rb_err_obj, kpc>>
           ELSE IF p.kind = "handle"
           THEN /\ parents' = Append(parents, p.object)
                /\ free_list' = Append(free_list, NULL)
                /\ ki' = ki + 1
                /\ UNCHANGED <<acquired, kerror, rb_err_obj, kpc>>
           ELSE /\ rb_err_obj' = [exc |-> "TypeError"]
                /\ kpc' = "cleanup"
                /\ UNCHANGED <<acquired, parents, free_list, ki, kerror>>
    /\ UNCHANGED <<rb_data, released, koutcome>>
    /\ UNCHANGED <<statsVars, walkVars, dbrVars, objVars, parVars, ishVars, sofVars>>

\* lines 475-485: git_commit_create, which writes the commit or fails
CrtCommit ==
    /\ kpc = "loop"
    /\ ki >= Len(rb_data.parents.ary)
    /\ \E err \in {GIT_OK, GIT_ERROR} : kerror' = err
    /\ kpc' = "cleanup"
    /\ UNCHANGED <<rb_data, acquired, released, parents, free_list, ki, rb_err_obj, koutcome>>
    /\ UNCHANGED <<statsVars, walkVars, dbrVars, objVars, parVars, ishVars, sofVars>>

\* the loop of lines 493-494 run twice over free_list
FreedParentsTwice(list) == SelectSeq(list \o list, LAMBDA f : f # NULL)

\* the entries of free_list that git_object_free releases: all but the NULLs
FreedParents(list) == SelectSeq(list, LAMBDA f : f # NULL)

\* lines 487-500: the cleanup label, then raise or return the new OID
CrtCleanup ==
    /\ kpc = "cleanup"
    /\ released' = released
                   \o <<Resource("author", 0), Resource("committer", 0), Resource("tree", 0)>>
                   \o FreedParents(free_list)
    /\ koutcome' = IF rb_err_obj # Qnil THEN rb_err_obj.exc
                   ELSE IF rugged_exception_check(kerror) THEN "RuggedError"
                   ELSE "returned"
    /\ kpc' = "done"
    /\ UNCHANGED <<rb_data, acquired, parents, free_list, ki, kerror, rb_err_obj>>
    /\ UNCHANGED <<statsVars, walkVars, dbrVars, objVars, parVars, ishVars, sofVars>>

CrtNext ==
    \/ CrtCall
    \/ CrtSignatures
    \/ CrtParentsType
    \/ CrtTree
    \/ CrtParent
    \/ CrtCommit
    \/ CrtCleanup

(***************************************************************************)
(* Properties of Commit.create.                                            *)
(***************************************************************************)
\* C17: when Commit.create has returned or raised, it has released every
\* object it acquired: the signatures, the tree, each parent it looked up.
C17_CreateReleasesAll ==
    kpc = "done" => \A r \in Range(acquired) : r \in Range(released)

\* the elements of :parents that are not nil, in order: element n is the
\* one that parents[n] and free_list[n] were filled from
GivenParents == SelectSeq(rb_data.parents.ary, LAMBDA p : p.kind # "nil")

\* how often the call released the resource r
TimesReleased(r) == Cardinality({k \in DOMAIN released : released[k] = r})

RECURSIVE PeelTags(_)
PeelTags(object) ==
    IF git_object_type(object) = "GIT_OBJ_TAG"
    THEN LET target == git_object_lookup(OidOf(git_tag_target_id(object)), "GIT_OBJ_ANY")
         IN  IF target.error # GIT_OK THEN target ELSE PeelTags(target.object)
    ELSE [error |-> GIT_OK, object |-> object]

\* rugged_commitish with an `if` in the place of the `while`
rugged_commitish_peel_once(spec) ==
    LET parsed == git_revparse_single(spec)
        peeled == IF git_object_type(parsed.object) = "GIT_OBJ_TAG"
                  THEN git_object_lookup(OidOf(git_tag_target_id(parsed.object)),
                                         "GIT_OBJ_ANY")
                  ELSE parsed
    IN  IF parsed.error # GIT_OK THEN [error |-> parsed.error, commit |-> 0]
        ELSE IF peeled.error # GIT_OK THEN [error |-> peeled.error, commit |-> 0]
        ELSE IF git_object_type(peeled.object) # "GIT_OBJ_COMMIT"
        THEN [error |-> GIT_ENOTFOUND, commit |-> 0]
        ELSE [error |-> GIT_OK, commit |-> peeled.object]

\* rugged_commitish, lines 327-351
rugged_commitish(spec) ==
    LET parsed == git_revparse_single(spec)
        peeled == PeelTags(parsed.object)
    IN  IF parsed.error # GIT_OK THEN [error |-> parsed.error, commit |-> 0]
        ELSE IF peeled.error # GIT_OK THEN [error |-> peeled.error, commit |-> 0]
        ELSE IF git_object_type(peeled.object) # "GIT_OBJ_COMMIT"
        THEN [error |-> GIT_ENOTFOUND, commit |-> 0]
        ELSE [error |-> GIT_OK, commit |-> peeled.object]

\* the tree object a tree handle stands for
TreeObject(handle) == 10 + handle.tree

\* rugged_commitish_or_treeish, lines 353-386; tree_error is what
\* git_commit_tree returns
rugged_commitish_or_treeish(rb_spec, is_commit, as_obj, tree_error) ==
    LET got == rugged_commitish(rb_spec)
        object == IF is_commit THEN got.commit ELSE TreeObject(git_commit_tree(got.commit))
    IN  IF rugged_exception_check(got.error)
        THEN CallResult("RuggedError", got.error, Qnil, 0)
        ELSE IF ~is_commit /\ rugged_exception_check(tree_error)
        THEN CallResult("RuggedError", tree_error, Qnil, 0)
        ELSE IF ~as_obj
        THEN CallResult("none", GIT_OK, rugged_create_oid(object), 0)
        ELSE CallResult("none", GIT_OK, rugged_object_new(object), 0)

\* the four methods: is_commit and as_obj of each (lines 395-427)
IshMethods ==
    {[name |-> "commitish", is_commit |-> TRUE, as_obj |-> TRUE],
     [name |-> "commitish_id", is_commit |-> TRUE, as_obj |-> FALSE],
     [name |-> "treeish", is_commit |-> FALSE, as_obj |-> TRUE],
     [name |-> "treeish_id", is_commit |-> FALSE, as_obj |-> FALSE]}

\* the revision expressions given: one for each object, and one that names
\* nothing
RevSpecs == {ObjectValue("rev", o) : o \in Objects \cup {0}}

IshInit ==
    /\ rcall = [method |-> "none", rb_spec |-> ObjectValue("rev", 0), tree_error |-> GIT_OK]
    /\ rresult = CallResult("none", GIT_OK, Qnil, 0)

\* a call of one of the four methods on a revision expression
IshCall ==
    /\ rcall.method = "none"
    /\ \E meth \in IshMethods, rb_spec \in RevSpecs, tree_error \in {GIT_OK, GIT_ERROR} :
        /\ rcall' = [method |-> meth.name, rb_spec |-> rb_spec, tree_error |-> tree_error]
        /\ rresult' = rugged_commitish_or_treeish(rb_spec, meth.is_commit, meth.as_obj,
                                                  tree_error)
    /\ UNCHANGED <<statsVars, walkVars, dbrVars, objVars, parVars, crtVars, sofVars>>

IshNext == IshCall

(***************************************************************************)
(* Properties of commitish and treeish.                                    *)
(***************************************************************************)
\* the object n tag targets away from object o (0 when the chain ends or
\* breaks before)
RECURSIVE TargetN(_, _)
TargetN(o, n) ==
    IF n = 0 THEN o
    ELSE LET before == TargetN(o, n - 1)
         IN  IF before \in Tags /\ git_tag_target_id(before) \in Objects
             THEN git_tag_target_id(before) ELSE 0

\* the first objects after the tags that start the chain of the call's
\* expression: at most one
ChainEnds ==
    {TargetN(rcall.rb_spec.object, n) : n \in 0..Cardinality(Tags)}
        \cap (Objects \ Tags)

\* C18: commitish follows the tags from the object the expression names to
\* the first object that is no tag; it returns that object when it is a
\* commit and fails when it is a tree or a blob, it never returns a tag, and
\* treeish returns the tree of exactly that commit.
C18_CommitishPeelsTags ==
    rcall.method # "none" =>
        /\ \A e \in ChainEnds :
            /\ (e \in Commits /\ rcall.method = "commitish") =>
                  (rresult.raised = "none" /\ rresult.value = rugged_object_new(e))
            /\ (e \in Commits /\ rcall.method = "commitish_id") =>
                  (rresult.raised = "none" /\ rresult.value = rugged_create_oid(e))
            /\ (e \in Commits /\ rcall.method = "treeish" /\ rresult.raised = "none") =>
                  rresult.value = rugged_object_new(10 + e)
            /\ (e \in Commits /\ rcall.method = "treeish_id" /\ rresult.raised = "none") =>
                  rresult.value = rugged_create_oid(10 + e)
            /\ (e \in Commits /\ rcall.tree_error = GIT_OK) => rresult.raised = "none"
            /\ e \in Trees \cup Blobs => rresult.raised = "RuggedError"
        /\ ChainEnds = {} => rresult.raised = "RuggedError"
        /\ (rresult.raised = "none" /\ rcall.method = "commitish") =>
              rresult.value.klass = "Commit"

\* commitish on an expression that names tag 24, a tag of tag 22, itself a
\* tag of tag 21, a tag of commit 5
C18_Witness ==
    /\ rcall.method = "commitish"
    /\ rcall.rb_spec.object = 24
    /\ ChainEnds = {5}
    /\ rresult.raised = "none"
    /\ rresult.value = rugged_object_new(5)

(***************************************************************************)
(* rugged_commit_stats_of: the stats of one commit, with an optional path  *)
(* filter (rugged_commit_stats.c).                                         *)
(***************************************************************************)
\* the paths of the repository's files, and the path filters given
Paths == {"a", "b", "c"}

PathFilters == {NoPath} \cup Paths

\* the origins of a diff line: addition, deletion, context, and the marker
\* of a binary file
Origins == {"+", "-", " ", "B"}

\* the lines a diff can hold: the file delta of a line has an old and a new
\* path, which differ when the delta is a rename
DiffLines ==
    [old_path : {"a", "b"}, new_path : {"a", "b"}, origin : Origins, line : {1}]

\* the diffs handed to the line callback: at most MaxDiffLines lines
Diffs == {d \in SUBSET DiffLines : Cardinality(d) <= MaxDiffLines}

\* what can fail in rugged_commit_stats_of
StatsOfFaults == {"none", "tree", "parent", "parent_tree", "diff"}

\* rugged_commit_stats_new: the Stats object that wraps the record
rugged_commit_stats_new(stats) == stats

\* rugged_commit_stats_of diffing against the last parent, not parent 0
rugged_commit_stats_of_last_parent(commit, path_only, fault) ==
    LET n == git_commit_parentcount(commit)
        parent_tree == IF n > 0 THEN git_commit_tree(Parents(commit)[n]) ELSE NULL
        counts == git_commit_stats_of(git_commit_tree(commit), parent_tree, path_only)
    IN  IF fault = "tree" \/ (n > 0 /\ fault \in {"parent", "parent_tree"}) \/ fault = "diff"
        THEN CallResult("RuggedError", GIT_ERROR, Qnil, 0)
        ELSE CallResult("none", GIT_OK,
                        rugged_commit_stats_new(
                            [adds |-> counts.adds, dels |-> counts.dels,
                             committer |-> git_commit_committer(commit),
                             author |-> git_commit_author(commit),
                             oid |-> git_commit_id(commit)]), 0)

\* rugged_commit_stats_of, lines 61-101
rugged_commit_stats_of(commit, path_only, fault) ==
    LET \* line 67
        tree_error == IF fault = "tree" THEN GIT_ERROR ELSE GIT_OK
        tree == git_commit_tree(commit)
        \* line 76: parent 0, GIT_ENOTFOUND when the commit has no parent
        parent_error == IF git_commit_parentcount(commit) = 0 THEN GIT_ENOTFOUND
                        ELSE IF fault = "parent" THEN GIT_ERROR
                        ELSE GIT_OK
        \* lines 77-83
        parent_tree_error == IF parent_error = GIT_OK
                             THEN IF fault = "parent_tree" THEN GIT_ERROR ELSE GIT_OK
                             ELSE IF parent_error = GIT_ENOTFOUND THEN GIT_OK
                             ELSE parent_error
        parent_tree == IF parent_error = GIT_OK
                       THEN git_commit_tree(Parents(commit)[1])
                       ELSE NULL
        \* line 91
        stats_error == IF fault = "diff" THEN GIT_ERROR ELSE GIT_OK
        counts == git_commit_stats_of(tree, parent_tree, path_only)
    IN  IF rugged_exception_check(tree_error)
        THEN CallResult("RuggedError", tree_error, Qnil, 0)
        ELSE IF parent_tree_error # GIT_OK
        THEN CallResult("RuggedError", parent_tree_error, Qnil, 0)
        ELSE IF stats_error # GIT_OK
        THEN CallResult("RuggedError", stats_error, Qnil, 0)
        ELSE CallResult("none", GIT_OK,
                        rugged_commit_stats_new(
                            [adds |-> counts.adds, dels |-> counts.dels,
                             committer |-> git_commit_committer(commit),
                             author |-> git_commit_author(commit),
                             oid |-> git_commit_id(commit)]), 0)

SofInit ==
    /\ scall = [method |-> "none", commit |-> 0, path_only |-> NoPath,
                fault |-> "none", diff |-> {}]
    /\ sresult = CallResult("none", GIT_OK, Qnil, 0)

\* a call of rugged_commit_stats_of on a commit of the repository
StatsOf ==
    /\ scall.method = "none"
    /\ \E commit \in Commits, path_only \in PathFilters, fault \in StatsOfFaults :
        /\ scall' = [method |-> "stats_of", commit |-> commit, path_only |-> path_only,
                     fault |-> fault, diff |-> {}]
        /\ sresult' = rugged_commit_stats_of(commit, path_only, fault)
    /\ UNCHANGED <<statsVars, walkVars, dbrVars, objVars, parVars, crtVars, ishVars>>

\* lines 50-56 of git_commit_stats_of on a diff of the diff engine, which
\* can hold lines of every origin and lines of rename deltas
StatsOfDiff ==
    /\ scall.method = "none"
    /\ \E diff \in Diffs, path_only \in PathFilters :
        /\ scall' = [method |-> "stats_of_diff", commit |-> 0, path_only |-> path_only,
                     fault |-> "none", diff |-> diff]
        /\ sresult' = CallResult("none", GIT_OK,
                                 git_commit_stats_of_diff(diff, path_only), 0)
    /\ UNCHANGED <<statsVars, walkVars, dbrVars, objVars, parVars, crtVars, ishVars>>

SofNext == StatsOf \/ StatsOfDiff

(***************************************************************************)
(* Properties of rugged_commit_stats_of.                                   *)
(***************************************************************************)
\* the diff whose lines the last call handed to the line callback
CallDiff ==
    IF scall.method = "stats_of" THEN CommitDiff(scall.commit) ELSE scall.diff

\* the lines of a diff that have the given origin
LinesOf(diff, origin) == {l \in diff : l.origin = origin}

\* the lines of a diff whose file delta has the path as its old path and as
\* its new path
LinesAt(diff, path) == {l \in diff : l.old_path = path /\ l.new_path = path}

\* C19: with a path filter, adds and dels count the added and deleted lines
\* of the deltas whose old path and new path both equal the filter; the
\* lines of a delta with only one of its paths equal to the filter (a rename
\* into or out of the path) add nothing.
C19_PathFilterNeedsBothPaths ==
    (scall.method # "none" /\ scall.path_only # NoPath /\ sresult.raised = "none") =>
        /\ sresult.value.adds =
              Cardinality(LinesOf(LinesAt(CallDiff, scall.path_only), "+"))
        /\ sresult.value.dels =
              Cardinality(LinesOf(LinesAt(CallDiff, scall.path_only), "-"))

\* filter "a" on a diff with an added line of a and an added line of a
\* delta that renames a to b: one addition is counted
C19_Witness ==
    /\ scall.method = "stats_of_diff"
    /\ scall.path_only = "a"
    /\ scall.diff = {[old_path |-> "a", new_path |-> "a", origin |-> "+", line |-> 1],
                     [old_path |-> "a", new_path |-> "b", origin |-> "+", line |-> 1]}
    /\ sresult.value = [adds |-> 1, dels |-> 0]

StatsOnlyWalk ==
    load_walk_limits([oid_only |-> FALSE, stats_only |-> FALSE, no_merges |-> FALSE,
                      offset |-> 0, limit |-> UINT64_MAX],
                     [NoOpts EXCEPT !.stats_only = TRUE])

\* what the loop of do_walk does with commit c in such a walk, when every
\* object is readable
StatsOnlyYield(c) == WalkBody(StatsOnlyWalk, c, [kind |-> "none", commit |-> 0])

\* C26: for every commit with at most one parent, the entry of a successful
\* Commit.stats, the CommitStats a stats_only walk yields and the result of
\* rugged_commit_stats_of without a path filter are the same record: the
\* same OID, author, committer, adds and dels.
C26_ThreeStatsAgree ==
    (spc = "done" /\ outcome = "returned") =>
        \A k \in 1..arrlen :
            LET c == rb_commits[k]
                of == rugged_commit_stats_of(c, NoPath, "none")
            IN  git_commit_parentcount(c) <= 1 =>
                    /\ StatsOnlyYield(c).out = "yield"
                    /\ StatsOnlyYield(c).value.kind = "stats"
                    /\ of.raised = "none"
                    /\ rb_results.ary[k] = StatsOnlyYield(c).value.stats
                    /\ rb_results.ary[k] = of.value

\* a successful batch that holds commit 2, whose diff against its parent 1
\* adds two lines and deletes one
C26_Witness ==
    /\ spc = "done"
    /\ outcome = "returned"
    /\ \E k \in 1..arrlen :
        /\ rb_commits[k] = 2
        /\ rb_results.ary[k].adds = 2
        /\ rb_results.ary[k].dels = 1
        /\ rb_results.ary[k] = StatsOnlyYield(2).value.stats

(***************************************************************************)
(* walker.push and walker.hide (rb_git_walker_push, rb_git_walker_hide).   *)
(***************************************************************************)
\* the largest number of entries of an array of tips
MaxTips == 3

\* push and hide are called on a walker that holds at most this many tips
MaxHeldTips == 1

\* a Ruby value given as a tip: a Rugged object wrapping the object `oid`,
\* a string (its length, whether it is all hexadecimal digits, the OID its
\* first 40 characters spell, the commit the reference of that name points
\* at; 0 names nothing), or a value of another type
TipObject(c) == [kind |-> "object", len |-> 0, hex |-> FALSE, oid |-> c, ref |-> 0]
TipString(l, h, c, r) == [kind |-> "string", len |-> l, hex |-> h, oid |-> c, ref |-> r]
TipOther == [kind |-> "other", len |-> 0, hex |-> FALSE, oid |-> 0, ref |-> 0]

\* a Commit object, a Tree object, the OID of a commit, an OID that names no
\* object, an OID one digit short, the name of a branch, a name no reference
\* has, and an Integer
PushTips ==
    {TipObject(3), TipObject(11),
     TipString(GIT_OID_HEXSZ, TRUE, 2, 0), TipString(GIT_OID_HEXSZ, TRUE, 0, 0),
     TipString(GIT_OID_HEXSZ - 1, TRUE, 2, 0),
     TipString(11, FALSE, 0, 4), TipString(11, FALSE, 0, 0),
     TipOther}

\* push_commit_ref: git_revwalk_push_ref or git_revwalk_hide_ref, which fail
\* for a name that no reference has; the failure is raised
push_commit_ref(walk, ref, hide) ==
    push_commit_oid(walk, ref.ref, hide)

\* push_commit_1 (lines 61-82)
push_commit_1(walk, rb_commit, hide) ==
    IF rb_commit.kind = "object"
    THEN push_commit_oid(walk, rb_commit.oid, hide)
    ELSE IF rb_commit.kind # "string"
    THEN \* Check_Type raises TypeError
         [walk |-> walk, raised |-> TRUE]
    ELSE IF rb_commit.len = GIT_OID_HEXSZ /\ git_oid_fromstr(rb_commit).error = 0
    THEN push_commit_oid(walk, git_oid_fromstr(rb_commit).oid, hide)
    ELSE push_commit_ref(walk, rb_commit, hide)

\* the loop of push_commit that carries on with the next element after an
\* element that raised
RECURSIVE push_commit_entries_past_failure(_, _, _)
push_commit_entries_past_failure(walk, entries, hide) ==
    IF entries = << >> THEN [walk |-> walk, raised |-> FALSE]
    ELSE LET r == push_commit_1(walk, Head(entries), hide)
             rest == push_commit_entries_past_failure(r.walk, Tail(entries), hide)
         IN  [walk |-> rest.walk, raised |-> r.raised \/ rest.raised]

\* the loop of push_commit (lines 88-89): the exception of push_commit_1
\* leaves the loop
RECURSIVE push_commit_entries(_, _, _)
push_commit_entries(walk, entries, hide) ==
    IF entries = << >> THEN [walk |-> walk, raised |-> FALSE]
    ELSE LET r == push_commit_1(walk, Head(entries), hide)
         IN  IF r.raised THEN r
             ELSE push_commit_entries(r.walk, Tail(entries), hide)

\* push_commit (lines 84-95) on a Ruby value: an Array, given by its entries,
\* or a single value
push_commit_value(walk, is_array, entries, hide) ==
    IF is_array THEN push_commit_entries(walk, entries, hide)
    ELSE push_commit_1(walk, entries[1], hide)

\* the arguments of a call: the entries of an Array, or one value
TipArrays == UNION {[1..n -> PushTips] : n \in 0..MaxTips}

\* no call is under way
NoPushCall == [method |-> "none", is_array |-> FALSE, entries |-> << >>,
               before |-> git_revwalk_new, raised |-> FALSE]

PushInit ==
    /\ pwalk = git_revwalk_new
    /\ pcall = NoPushCall

\* a call of walker.push or walker.hide
PushCall(method, hide) ==
    /\ pcall = NoPushCall
    /\ Len(pwalk.pushed) + Len(pwalk.hidden) <= MaxHeldTips
    /\ \E is_array \in BOOLEAN, entries \in TipArrays :
        /\ is_array \/ Len(entries) = 1
        /\ LET r == push_commit_value(pwalk, is_array, entries, hide)
           IN  /\ pwalk' = r.walk
               /\ pcall' = [method |-> method, is_array |-> is_array,
                            entries |-> entries, before |-> pwalk,
                            raised |-> r.raised]
        /\ UNCHANGED <<wpc, entry, opts, w, walker, corrupt, yielded, exception,
                       wfail, wexit, woutcome, walk_created, walk_freed, lookups>>
        /\ UNCHANGED <<statsVars, restVars>>

\* rb_git_walker_push (lines 134-140)
WalkerPush == PushCall("push", FALSE)

\* rb_git_walker_hide (lines 157-163)
WalkerHide == PushCall("hide", TRUE)

\* the call has returned nil (lines 139 and 162) or the caller has rescued
\* its exception: the walker is as the call left it for the caller's next call
PushCallEnds ==
    /\ pcall # NoPushCall
    /\ pcall' = NoPushCall
    /\ UNCHANGED pwalk
    /\ UNCHANGED <<wpc, entry, opts, w, walker, corrupt, yielded, exception,
                   wfail, wexit, woutcome, walk_created, walk_freed, lookups>>
    /\ UNCHANGED <<statsVars, restVars>>

PushNext ==
    \/ WalkerPush
    \/ WalkerHide
    \/ PushCallEnds

\* whether a value given alone to a new walker raises, and the tips the
\* walker then holds
TipFails(tip) == push_commit_1(git_revwalk_new, tip, FALSE).raised
TipAdds(tip) == push_commit_1(git_revwalk_new, tip, FALSE).walk.pushed

RECURSIVE TipsAdded(_)
TipsAdded(entries) ==
    IF entries = << >> THEN << >>
    ELSE TipAdds(Head(entries)) \o TipsAdded(Tail(entries))

\* the set of the walker a call adds to, and the set it leaves alone
SetOf(walk, method) == IF method = "hide" THEN walk.hidden ELSE walk.pushed
OtherSetOf(walk, method) == IF method = "hide" THEN walk.pushed ELSE walk.hidden

\* C29: when push or hide was given an array whose element k is the first
\* that cannot be resolved, the call raised, the elements before k were added
\* in order to the set the call adds to (show for push, hide for hide), after
\* what the walker held before, and neither element k nor any element after
\* it was added; the other set is as it was.
C29_FailingTipStopsThePush ==
    (pcall.method # "none" /\ pcall.is_array) =>
        \A k \in 1..Len(pcall.entries) :
            (/\ TipFails(pcall.entries[k])
             /\ \A j \in 1..(k - 1) : ~TipFails(pcall.entries[j]))
            => /\ pcall.raised
               /\ SetOf(pwalk, pcall.method) =
                      SetOf(pcall.before, pcall.method)
                      \o TipsAdded(SubSeq(pcall.entries, 1, k - 1))
               /\ OtherSetOf(pwalk, pcall.method) =
                      OtherSetOf(pcall.before, pcall.method)
               /\ pwalk.cursor = pcall.before.cursor

\* a hide call on a walker that commit 3 was pushed to before, given the
\* OID of commit 2, an OID that names no object, and a branch name: it
\* raised, commit 2 is hidden and the branch is not
C29_Witness ==
    /\ pcall.method = "hide"
    /\ pcall.is_array
    /\ pcall.before.pushed = <<3>>
    /\ pcall.entries = <<TipString(GIT_OID_HEXSZ, TRUE, 2, 0),
                         TipString(GIT_OID_HEXSZ, TRUE, 0, 0),
                         TipString(11, FALSE, 0, 4)>>
    /\ pcall.raised
    /\ pwalk.pushed = <<3>>
    /\ pwalk.hidden = <<2>>

(***************************************************************************)
(* Specifications.                                                         *)
(***************************************************************************)
Init == StatsInit /\ WalkInit /\ DbrInit /\ ObjInit /\ ParInit /\ CrtInit /\ IshInit
        /\ SofInit /\ PushInit

\* Commit.stats alone
SpecStats == Init /\ [][StatsNext]_vars

\* the steps of the calling thread
MainStep ==
    \/ StatsEnter \/ StatsPrepare \/ StatsPrepared \/ StatsCreate \/ StatsCreated
    \/ StatsJoin \/ StatsResults \/ StatsWrong \/ StatsClean

\* the steps of worker t
WorkerStep(t) ==
    /\ t \in DOMAIN threads
    /\ \/ WorkerLock(t) \/ WorkerClaim(t) \/ WorkerIncrement(t) \/ WorkerUnlock(t)
       \/ WorkerStats(t) \/ WorkerCancelled(t)

\* Commit.stats alone, with a scheduler that lets the calling thread and
\* every worker take a step when it can
SpecStatsFair ==
    /\ Init /\ [][StatsNext]_vars
    /\ WF_vars(MainStep)
    /\ \A t \in 1..MaxCpus : WF_vars(WorkerStep(t))

\* the walks alone
SpecWalk == Init /\ [][WalkNext]_vars

\* Commit.diff_between_repos alone
SpecDbr == Init /\ [][DbrNext]_vars

\* Object.lookup and Object.exists? alone
SpecObj == Init /\ [][ObjNext]_vars

\* the parent accessors of a commit alone
SpecPar == Init /\ [][ParNext]_vars

\* Commit.create alone
SpecCrt == Init /\ [][CrtNext]_vars

\* commitish and treeish alone
SpecIsh == Init /\ [][IshNext]_vars

\* the calls of rugged_commit_stats_of
SpecSof == Init /\ [][SofNext]_vars

\* walker.push and walker.hide alone
SpecPush == Init /\ [][PushNext]_vars

Next == StatsNext \/ WalkNext \/ DbrNext \/ ObjNext \/ ParNext \/ CrtNext \/ IshNext
        \/ SofNext \/ PushNext

Spec == Init /\ [][Next]_vars

====
